---------------------------- MODULE UploadPort -----------------------------
(***************************************************************************)
(* What a group of sealed objects may come back with: the contract between *)
(* the engine and its upload port (engine/upload.go).  SourcePass assumes  *)
(* it of every group it hands out; UploadTickets is checked to keep it.    *)
(***************************************************************************)

(* One AuthorizeAndUpload of the objects in s: the batch is authorized     *)
(* whole or not at all, past that point objects succeed or fail alone.     *)
AuthorizeAndUpload(s) ==
    [s -> {"shipped", "failed", "expired"}]
    \cup {[o \in s |-> v] : v \in {"refused", "unavailable"}}

(* authorizeAndUpload: expired tickets get exactly one more authorization; *)
(* a second expiry is a failure.                                           *)
GroupAnswers(s) ==
    UNION {LET again == {o \in s : first[o] = "expired"}
           IN  {[o \in s |->
                   CASE o \notin again -> first[o]
                     [] o \in again /\ second[o] = "expired" -> "failed"
                     [] OTHER -> second[o]]
                : second \in AuthorizeAndUpload(again)}
           : first \in AuthorizeAndUpload(s)}
=============================================================================
