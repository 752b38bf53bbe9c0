---------------------------- MODULE MCAttestation ----------------------------
(* Attestation for TLC.                                                      *)
EXTENDS Attestation, TLC

PlainRequest == <<"plain">>
OtherRequest == <<"control", "plain">>
MarkupRequest == <<"plain", "html">>
WideRequest == <<"wide", "plain">>
PlainRequests == {PlainRequest}
MixedRequests == {PlainRequest, OtherRequest, << >>}
WithEmpty == {PlainRequest, << >>}
EscapedRequests == {MarkupRequest, WideRequest}

AllSymmetry == UNION {Permutations(S) : S \in {Ids, Nonces, Clients, Threads}}
==============================================================================
