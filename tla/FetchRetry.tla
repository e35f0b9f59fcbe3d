----------------------------- MODULE FetchRetry -----------------------------
(***************************************************************************)
(* fetchRetry of packages/sdk/src/txline.ts: a request to the TxLINE feed, *)
(* repeated after a pause.  The error that it throws for a status which is *)
(* not worth a retry is thrown inside its own try and caught there, so     *)
(* that such an answer is retried like any other failure, and the loop's   *)
(* count alone ends a call.  How long the pauses are is left out.          *)
(***************************************************************************)
EXTENDS Naturals

CONSTANT attempts   (* 5, the default that all callers take *)

ASSUME AttemptsAssumption == attempts \in Nat \ {0}

VARIABLES
  call,       (* "idle", "trying", or how it ended: "answered", "threw"     *)
  attempt     (* how many attempts have failed                              *)

fetchVars == <<call, attempt>>

FetchInit == call = "idle" /\ attempt = 0

StartFetch == call' = "trying" /\ attempt' = 0
StopFetch  == call' = "idle" /\ attempt' = 0

\* An attempt that got an answer with res.ok.
Answered ==
  /\ call = "trying"
  /\ call' = "answered"
  /\ UNCHANGED attempt

\* An attempt that did not: it threw, or its status was not ok, whichever.
Refused ==
  /\ call = "trying"
  /\ IF attempt + 1 < attempts THEN UNCHANGED call ELSE call' = "threw"
  /\ attempt' = attempt + 1
=============================================================================
