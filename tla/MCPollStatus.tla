---------------------------- MODULE MCPollStatus ----------------------------
(***************************************************************************)
(* State names, signers and policies for the runs of PollStatus.  The      *)
(* names are those of the mock SP (mockserver.go:286, 310-312) and one     *)
(* that is terminal by its suffix.                                         *)
(***************************************************************************)
EXTENDS PollStatus

MCStates == {<<"accepted">>, <<"processing">>, <<"active">>,
             <<"deal", "failed">>}

\* A SecpSigner (pkg/wallet/secp.go).
SecpSigner == [keyType |-> "secp256k1", addr |-> "f1a",
               sigType |-> "secp256k1", key |-> "f1a"]

\* It, and what other implementations of Signer can do wrong: a key type the SP
\* does not verify, a signature of another type, one without an envelope, and a
\* key of somebody else.
MCSigners == {SecpSigner,
              [SecpSigner EXCEPT !.keyType = "bls", !.sigType = "bls"],
              [SecpSigner EXCEPT !.sigType = "delegated"],
              [SecpSigner EXCEPT !.sigType = "naked"],
              [SecpSigner EXCEPT !.key = "f1b"]}

OnlyOurs == {SecpSigner}

\* AllowedClients as in TestIntegration_AuthRejectsBadSigner, nil, and SkipAuth.
Everyone == [skipAuth |-> FALSE, allowed |-> {"f1a", "f1b"}]

MCPolicies == {Everyone,
               [Everyone EXCEPT !.allowed = {"f1b"}],
               [Everyone EXCEPT !.skipAuth = TRUE]}

OnlyEveryone == {Everyone}
=============================================================================
