------------------------ MODULE MCDMClientService ------------------------
(* Instances of DMClientService for TLC. *)
EXTENDS DMClientService, TLC

CONSTANTS p1, s1, s2, c1, i1, b1, b2

\* Two requests that the receiver saved under their time stamps, and the
\* intents without a request id.
MCKind == p1 :> "pkg0" @@ s1 :> "session" @@ s2 :> "session" @@ c1 :> "cancel"
          @@ i1 :> "ignored"
MCRequestID == p1 :> 1 @@ s1 :> 2 @@ s2 :> 0 @@ c1 :> 0 @@ i1 :> 0

KindOf == [r \in Requests |-> MCKind[r]]
RequestIDOf == [r \in Requests |-> MCRequestID[r]]
=============================================================================
