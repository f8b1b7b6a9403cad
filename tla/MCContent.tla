----------------------------- MODULE MCContent ------------------------------
(* What of a session leaves the machine: whether the session is collected, how *)
(* its lines are walked, how one string is cut.  The three work on values the  *)
(* others do not see, so a behaviour exercises one; focus says which.          *)
EXTENDS SpanPlan, Redaction, RepoTracking

VARIABLE focus
vars == <<planVars, scrubVars, trackVars, focus>>

(* Redaction: payloads of two lines whose values nest up to two embedded documents. *)
Leaves == {Text(w) : w \in {"plain", "pattern", "heuristic", "long"}} \cup {Number(w) : w \in {"plain", "pattern"}}
Inner == {Object(k, v) : k \in {"a", "id", "secret", "keyhash", "keypattern"}, v \in Leaves}
DocsOf(S) == {Doc(d, torn, FALSE) : d \in S, torn \in BOOLEAN}
               \cup {Doc(d, torn, TRUE) : d \in {e \in S : e.val.kind = "text"}, torn \in BOOLEAN}
Docs == DocsOf(Inner)
DocsInDocs == DocsOf({Object(k, v) : k \in {"a", "secret"}, v \in Docs})
Tops == {Object(k, v) : k \in {"a", "id", "secret", "keypattern"},
                        v \in Leaves \cup {Array(x) : x \in Leaves \cup Docs} \cup Inner \cup Docs \cup DocsInDocs}
OtherLines == {Blank, Line(Object("a", Text("plain")), FALSE), Line(Object("id", Text("pattern")), FALSE),
               Line(Object("a", Text("heuristic")), TRUE), Line(Object("id", Text("fault")), FALSE),
               Line(Object("a", Doc(Object("a", Text("fault")), FALSE, FALSE)), FALSE)}
MCPayloads == {<<Opaque, Line(Object("a", Text("pattern")), FALSE)>>}
                \cup {<<l, Line(t, FALSE)>> : l \in OtherLines, t \in Tops}
                \cup {<<Line(t, TRUE), l>> : l \in {Blank, Line(Object("id", Text("pattern")), FALSE)}, t \in Tops}
MCExempt == {<<"id">>, <<"a", "#json", "id">>, <<"a", "*">>, <<"a", "[]">>, <<"blob">>}
MCDrops == {<<"a">>, <<"id">>, <<"a", "[]">>}

(* RepoTracking: a repository with a subdirectory and a linked worktree beside it, in a plain directory
   under home, and a directory that is not under home.  Its .git files are a worktree's, a worktree's with
   a repository in the subdirectory, and a worktree's without a main checkout, a broken one and the
   dotfiles' at home. *)
MCDirs == {"root", "home", "work", "repo", "sub", "tree", "away"}
MCParent == [d \in MCDirs |-> CASE d = "sub" -> "repo" [] d \in {"repo", "tree"} -> "work"
                                [] d = "work" -> "home" [] OTHER -> "root"]
Git(kind, main) == [kind |-> kind, main |-> main]
OneRepo == [d \in MCDirs |-> IF d = "repo" THEN Git("dir", d) ELSE Git("none", NoDir)]
OneWorktree == [OneRepo EXCEPT !["tree"] = Git("file", "repo")]
MCLayouts == {OneWorktree, [OneWorktree EXCEPT !["sub"] = Git("dir", "sub")],
              [OneRepo EXCEPT !["tree"] = Git("file", NoDir), !["sub"] = Git("broken", NoDir),
                              !["home"] = Git("dir", "home")]}
MCPlaces == {"root", "work", "sub", "tree", "away"}
MCMarkable == {"home", "repo", "tree"}
MCListings == {<<"p1", "p2">>, <<"v1", "v2">>, <<"d1">>}
MCKind == [f \in {"p1", "p2", "v1", "v2", "d1"} |->
             CASE f \in {"p1", "p2"} -> "probe" [] f = "d1" -> "stored" [] OTHER -> "anchored"]
MCProject == [f \in DOMAIN MCKind |-> CASE MCKind[f] = "probe" -> "project" [] f = "d1" -> "database" [] OTHER -> "workspace"]
MCFolders == {{}, {"sub"}, {"tree", "away"}, {"repo", "root"}}

(* The two that rest. *)
PlanRests == stage = "given" /\ value = <<>> /\ found = Nothing /\ plan = NoPlan
ScrubRests ==
    /\ jsonl = TRUE /\ rest = <<>> /\ seen = <<>> /\ copied = FALSE /\ out = <<>>
    /\ ledger = 0 /\ parsed = 0 /\ raw = 0 /\ verdict = "open"
TrackRests ==
    /\ git = OneWorktree /\ markers = {} /\ listing = <<>> /\ ran = [f \in Sessions |-> Home] /\ head = {}
    /\ anchor = [p \in Projects |-> NoAnchor] /\ filter = NewRepoFilter
    /\ judged = [f \in Sessions |-> Unjudged] /\ flushing = "idle" /\ browser = ClosedBrowser
    /\ gits = {} /\ off = {} /\ changes = 0

Init ==
    \/ focus = "plan" /\ PlanInit /\ ScrubRests /\ TrackRests
    \/ focus = "scrub" /\ RedactionInit /\ PlanRests /\ TrackRests
    \/ focus = "track" /\ TrackInit /\ PlanRests /\ ScrubRests

Next ==
    /\ UNCHANGED focus
    /\ \/ focus = "plan" /\ PlanNext /\ UNCHANGED <<scrubVars, trackVars>>
       \/ focus = "scrub" /\ RedactionNext /\ UNCHANGED <<planVars, trackVars>>
       \/ focus = "track" /\ TrackNext /\ UNCHANGED <<planVars, scrubVars>>

Spec == Init /\ [][Next]_vars
=============================================================================
