---------------------------- MODULE UploadRecord ----------------------------
(***************************************************************************)
(* The promise the engine makes about its local record (CONSTITUTION.md,   *)
(* Article 7): "Each install keeps its own record of what has been         *)
(* shipped, committed only after the destination confirms the write."      *)
(*                                                                         *)
(* A claim says "the archive holds this content, redacted by this          *)
(* generation of the rules".  The destination may come to hold more        *)
(* claims at any time (a PUT can land unnoticed); the record may forget    *)
(* anything at any time (a crash, a discarded document, a reset), but it   *)
(* may come to assert only what the destination already holds.             *)
(***************************************************************************)
EXTENDS Naturals

CONSTANTS Files,    \* the files the record is about
          Claims,   \* what can be said of a stored object
          NoClaim   \* the record says nothing of the file

VARIABLES shipped,   \* [Files -> SUBSET Claims]: what the archive holds
          recorded   \* [Files -> Claims or NoClaim]: the durable record

recordVars == <<shipped, recorded>>

Init ==
    /\ shipped = [f \in Files |-> {}]
    /\ recorded = [f \in Files |-> NoClaim]

(* An object reaches the archive; every earlier version stays (versioned   *)
(* bucket).                                                                *)
Stored ==
    /\ \E f \in Files, s \in SUBSET Claims :
          shipped' = [shipped EXCEPT ![f] = @ \cup s]
    /\ UNCHANGED recorded

(* One replacement of the durable document: per file it is kept, forgotten *)
(* or brought up to something the archive held before this step.           *)
Recorded ==
    /\ \A f \in Files :
          recorded'[f] \in {NoClaim, recorded[f]} \cup shipped[f]
    /\ recorded' = [f \in Files |-> recorded'[f]]
    /\ UNCHANGED shipped

Next == Stored \/ Recorded

Spec == Init /\ [][Next]_recordVars

(* What the promise comes to: whatever is recorded was stored. *)
RecordedWasStored ==
    \A f \in Files : recorded[f] # NoClaim => recorded[f] \in shipped[f]
=============================================================================
