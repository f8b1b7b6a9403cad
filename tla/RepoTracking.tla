---------------------------- MODULE RepoTracking ----------------------------
(***************************************************************************)
(* Which sessions are collected (sources/ignore.go, sources/anchor.go, the *)
(* walk of sources/gather.go, sources/sessions.go) and the browser that    *)
(* switches a repository off and on (app/survey.go, cli/tracking.go).  A   *)
(* session is attributed to the directory it ran in, by the head of its    *)
(* file, by the anchor of its workspace or by its row in a database, and   *)
(* the .notrajectories marker that governs that directory drops it.  A     *)
(* flush has a filter of its own, whose caches live as long as the flush;  *)
(* the browser's filter lives as long as the browser.                      *)
(***************************************************************************)
EXTENDS Naturals, Sequences, FiniteSets, SequencesExt

CONSTANTS Dirs, Parent, Home,      \* the directory tree; Parent[d] = d for its root
          Places, Markable,        \* where sessions run, and where users write markers by hand
          Layouts,                 \* what .git is in each directory, in each state the user leaves them
          Listings,                \* the sessions in the order a walk lists them
          Kind,                    \* of a session: "probe", "anchored" or "stored" in a database
          Project,                 \* the project or workspace directory a session's file lies in
          Folders,                 \* what an anchor may name: one folder, several, or none
          MaxChanges               \* bound: changes to the disk in a behaviour

VARIABLES git, markers,            \* .git of each directory; the directories that hold a marker
          ran,                     \* the directory each project's or stored session ran in
          head,                    \* the sessions whose file already names its directory
          anchor,                  \* of each workspace: whether it is complete, and its folders
          listing,                 \* the sessions there are
          filter,                  \* the flush's RepoFilter
          judged,                  \* of each session in this flush: the verdict and what it was judged by
          flushing,                \* "idle", "walk" or "load"
          browser,                 \* the tracking browser: open or not, its RepoFilter and its rows
          gits,                    \* history: the layouts there were since the flush began
          off,                     \* history: sessions of the rows switched off in the browser
          changes                  \* bound

diskVars == <<git, markers, ran, head, anchor, listing>>
flushVars == <<filter, judged, flushing>>
trackVars == <<diskVars, flushVars, browser, gits, off, changes>>

NoDir == "none"
Unset == "unset"
Sessions == UNION {ToSet(l) : l \in Listings}
Projects == {Project[f] : f \in Sessions}
Listed == ToSet(listing)

-----------------------------------------------------------------------------
(* The git checkout and the marker of a directory *)

Scope(root, main) == [root |-> root, main |-> main]
NoScope == Scope(NoDir, NoDir)
UnsetScope == Scope(Unset, Unset)

RECURSIVE FindGitDir(_, _), MarkerBetween(_, _, _)

(* The checkout nearest above d, below home.  A .git that is a file points to the repository's common
   directory, whose main checkout is known unless the repository is bare or gone; one that cannot be
   followed ends the search. *)
FindGitDir(d, g) ==
    IF d = Home THEN NoScope
    ELSE IF g[d].kind \in {"dir", "file"} THEN Scope(d, g[d].main)
    ELSE IF g[d].kind = "broken" \/ Parent[d] = d THEN NoScope
    ELSE FindGitDir(Parent[d], g)

(* The nearest of the markers ms from d up to stop, home or the root of the file system. *)
MarkerBetween(ms, d, stop) ==
    IF d \in ms THEN d
    ELSE IF d \in {stop, Home} \/ Parent[d] = d THEN NoDir
    ELSE MarkerBetween(ms, Parent[d], stop)

MarkerWithoutMain(ms, sc, d) == IF d = NoDir THEN NoDir ELSE MarkerBetween(ms, d, sc.root)

(* The marker of ms that governs d, whose checkout is sc. *)
Marker(ms, sc, d) ==
    LET near == IF d = NoDir THEN NoDir ELSE MarkerBetween(ms, d, sc.root)
    IN  IF near = NoDir /\ sc.main \in ms /\ sc.main # sc.root THEN sc.main ELSE near

(* cleanCWD: the root of the file system is no working directory. *)
CleanCWD(d) == IF d \in Dirs /\ Parent[d] = d THEN NoDir ELSE d

-----------------------------------------------------------------------------
(* The filter and its caches *)

NoAnchor == [final |-> FALSE, dirs |-> {}]

NewRepoFilter ==
    [cwds |-> [k \in Sessions \cup Projects |-> Unset],
     scopes |-> [d \in Dirs |-> UnsetScope],
     anchored |-> [p \in Projects |-> NoAnchor]]

(* probeCWD: what the head of the file names. *)
ProbeCWD(f) == IF f \in head THEN CleanCWD(ran[f]) ELSE NoDir

LearnCWDForAll(c, f) ==
    LET d == ProbeCWD(f)
    IN  IF c.cwds[Project[f]] # Unset \/ c.cwds[f] # Unset THEN c
        ELSE [c EXCEPT !.cwds = [k \in DOMAIN @ |-> IF k \in {f, Project[f]} THEN d ELSE @[k]]]

(* A hit is kept for the project, a miss for the file alone. *)
LearnCWD(c, f) ==
    LET d == ProbeCWD(f)
    IN  IF c.cwds[Project[f]] # Unset \/ c.cwds[f] # Unset THEN c
        ELSE [c EXCEPT !.cwds = [k \in DOMAIN @ |->
                IF k = f \/ (k = Project[f] /\ d # NoDir) THEN d ELSE @[k]]]

(* An anchor that is absent or torn may still be written, so only a complete one is kept. *)
LearnAnchor(c, f) ==
    IF anchor[Project[f]].final /\ ~c.anchored[Project[f]].final
    THEN [c EXCEPT !.anchored[Project[f]] = anchor[Project[f]]]
    ELSE c

(* The directories a session is attributed to, by a filter that has read for it. *)
DirsOf(c, f) ==
    CASE Kind[f] = "stored" -> {CleanCWD(ran[f])} \ {NoDir}
      [] Kind[f] = "anchored" -> {CleanCWD(d) : d \in c.anchored[Project[f]].dirs} \ {NoDir}
      [] OTHER -> {IF c.cwds[Project[f]] # Unset THEN c.cwds[Project[f]] ELSE c.cwds[f]} \ {NoDir, Unset}

LearnScopes(c, ds) ==
    [c EXCEPT !.scopes = [d \in Dirs |->
        IF d \in ds /\ @[d] = UnsetScope THEN FindGitDir(d, git) ELSE @[d]]]

(* What the filter has cached once it was asked about f. *)
Learn(c, f) ==
    LET read == CASE Kind[f] = "probe" -> LearnCWD(c, f)
                  [] Kind[f] = "anchored" -> LearnAnchor(c, f)
                  [] OTHER -> c
    IN  LearnScopes(read, DirsOf(read, f))

(* A workspace of several folders has no single working directory. *)
CWD(c, f) == IF Cardinality(DirsOf(c, f)) = 1 THEN CHOOSE d \in DirsOf(c, f) : TRUE ELSE NoDir

ScopeOf(c, d) == IF d = NoDir THEN NoScope ELSE c.scopes[d]

RepoDir(c, f) ==
    LET main == ScopeOf(c, CWD(c, f)).main IN IF main # NoDir THEN main ELSE CWD(c, f)

(* Match: a marker over any of a session's directories drops it. *)
MatchRepo(c, f) == \E d \in DirsOf(c, f) : Marker(markers, ScopeOf(c, d), d) # NoDir

-----------------------------------------------------------------------------
(* A flush *)

Unjudged == [verdict |-> "unseen", cwd |-> NoDir, by |-> {}]
Judgement(v, d, ms) == [verdict |-> v, cwd |-> d, by |-> ms]

(* planFor: every flush builds its filter. *)
BeginFlush ==
    /\ flushing = "idle"
    /\ flushing' = "walk"
    /\ filter' = NewRepoFilter
    /\ judged' = [f \in Sessions |-> Unjudged]
    /\ gits' = {git}
    /\ UNCHANGED <<diskVars, browser, off, changes>>

(* The walk asks the filter about one session, in the order of the listing. *)
Consider(f) ==
    LET c == Learn(filter, f)
    IN  /\ flushing = "walk"
        /\ judged[f].verdict = "unseen"
        /\ \A i, j \in DOMAIN listing :
              i < j /\ listing[j] = f => judged[listing[i]].verdict # "unseen"
        /\ filter' = c
        /\ judged' = [judged EXCEPT ![f] =
              Judgement(IF MatchRepo(c, f) THEN "dropped" ELSE "kept", CWD(c, f),
                        IF Kind[f] = "stored" THEN markers ELSE {})]
        /\ UNCHANGED <<diskVars, flushing, browser, gits, off, changes>>

EndWalk ==
    /\ flushing = "walk"
    /\ \A f \in Listed : judged[f].verdict # "unseen"
    /\ flushing' = "load"
    /\ UNCHANGED <<diskVars, filter, judged, browser, gits, off, changes>>

LoadedAsFound(f) == TRUE

(* Load of a stored session reads the database again, and refuses a session that has moved since it was
   listed: the markers were asked about the directory it was listed with. *)
Loaded(f) == Kind[f] = "stored" => CleanCWD(ran[f]) = judged[f].cwd

Load(f) ==
    /\ flushing = "load"
    /\ judged[f].verdict = "kept"
    /\ judged' = [judged EXCEPT ![f].verdict = IF Loaded(f) THEN "shipped" ELSE "refused"]
    /\ UNCHANGED <<diskVars, filter, flushing, browser, gits, off, changes>>

EndFlush ==
    /\ flushing = "load"
    /\ \A f \in Listed : judged[f].verdict # "kept"
    /\ flushing' = "idle"
    /\ filter' = NewRepoFilter
    /\ judged' = [f \in Sessions |-> Unjudged]
    /\ gits' = {}
    /\ UNCHANGED <<diskVars, browser, off, changes>>

-----------------------------------------------------------------------------
(* The tracking browser *)

ClosedBrowser == [open |-> FALSE, attr |-> NewRepoFilter, rows |-> {}]

(* Survey: one row per directory that stands for a repository; a row is off when a marker governs each of
   its sessions, and it lists those markers. *)
Survey(ms, c) ==
    LET mark(f) == Marker(ms, ScopeOf(c, CWD(c, f)), CWD(c, f))
        row(d) == LET fs == {f \in Listed : RepoDir(c, f) = d}
                  IN  [dir |-> d, sessions |-> fs, off |-> \A f \in fs : mark(f) # NoDir,
                       marks |-> {mark(f) : f \in fs} \ {NoDir}]
    IN  {row(d) : d \in {RepoDir(c, f) : f \in Listed}}

(* refresh: the filter outlives it, and only the markers are looked up again. *)
Refreshed(c) ==
    LET learned == FoldLeft(Learn, c, listing) IN [attr |-> learned, rows |-> Survey(markers, learned)]

OpenBrowser ==
    LET b == Refreshed(NewRepoFilter)
    IN  /\ ~browser.open
        /\ browser' = [open |-> TRUE, attr |-> b.attr, rows |-> b.rows]
        /\ UNCHANGED <<diskVars, flushVars, gits, off, changes>>

CloseBrowser ==
    /\ browser.open
    /\ browser' = ClosedBrowser
    /\ UNCHANGED <<diskVars, flushVars, gits, off, changes>>

(* Untrack writes the row's own marker; Track removes it and never another. *)
Untrack(r) == markers \cup {r.dir}
Track(r) == markers \ {r.dir}

ToggledAny(r) == IF ~r.off THEN Untrack(r) ELSE markers \ r.marks

(* toggle: a row that is off for another marker alone is left as it is. *)
Toggled(r) == IF ~r.off THEN Untrack(r) ELSE IF r.dir \in r.marks THEN Track(r) ELSE markers

(* The sessions that name a directory themselves and whose repository is the row's. *)
Switched(r) == {f \in Listed : /\ Kind[f] = "probe" => f \in head
                               /\ RepoDir(Learn(NewRepoFilter, f), f) = r.dir}

(* A row whose sessions belong to no directory cannot be switched.  The survey is taken again after it. *)
Toggle(r) ==
    /\ browser.open /\ r \in browser.rows
    /\ r.dir # NoDir
    /\ changes < MaxChanges
    /\ changes' = changes + 1
    /\ markers' = Toggled(r)
    /\ off' = IF r.off THEN {} ELSE off \cup Switched(r)
    /\ UNCHANGED <<git, ran, head, anchor, listing, flushVars, gits>>
    /\ LET learned == FoldLeft(Learn, browser.attr, listing)
       IN  browser' = [browser EXCEPT !.attr = learned, !.rows = Survey(markers', learned)]

-----------------------------------------------------------------------------
(* What others do to the disk *)

Changing == changes < MaxChanges /\ changes' = changes + 1

(* The user writes or removes a marker. *)
UserMarks(d) ==
    /\ Changing
    /\ markers' = IF d \in markers THEN markers \ {d} ELSE markers \cup {d}
    /\ off' = IF d \in markers THEN {} ELSE off
    /\ UNCHANGED <<git, ran, head, anchor, listing, flushVars, browser, gits>>

(* git init, git worktree add, a clone removed. *)
GitChanges(g) ==
    /\ Changing
    /\ g # git
    /\ git' = g
    /\ gits' = IF flushing = "idle" THEN gits ELSE gits \cup {g}
    /\ off' = {}
    /\ UNCHANGED <<markers, ran, head, anchor, listing, flushVars, browser>>

(* An agent writes the line that names its directory. *)
HeadWritten(f) ==
    /\ Changing
    /\ f \in Listed \ head /\ Kind[f] = "probe"
    /\ head' = head \cup {f}
    /\ UNCHANGED <<git, markers, ran, anchor, listing, flushVars, browser, gits, off>>

(* An agent completes the anchor of a workspace. *)
AnchorWritten(p, ds) ==
    /\ Changing
    /\ \E f \in Listed : Kind[f] = "anchored" /\ Project[f] = p
    /\ ~anchor[p].final
    /\ anchor' = [anchor EXCEPT ![p] = [final |-> TRUE, dirs |-> ds]]
    /\ UNCHANGED <<git, markers, ran, head, listing, flushVars, browser, gits, off>>

(* A stored session is continued in another directory. *)
SessionMoves(f, d) ==
    /\ Changing
    /\ f \in Listed /\ Kind[f] = "stored" /\ d # ran[f]
    /\ ran' = [ran EXCEPT ![f] = d]
    /\ off' = off \ {f}
    /\ UNCHANGED <<git, markers, head, anchor, listing, flushVars, browser, gits>>

TrackInit ==
    /\ git \in Layouts
    /\ markers \in {m \in SUBSET Markable : Cardinality(m) <= 1}
    /\ listing \in Listings
    /\ \E where \in [Projects -> Places \cup {Home}] :
          /\ \A p \in Projects : p \notin {Project[f] : f \in {e \in Listed : Kind[e] # "anchored"}}
                => where[p] = Home
          /\ ran = [f \in Sessions |-> where[Project[f]]]
    /\ head \in SUBSET {f \in Listed : Kind[f] = "probe"}
    /\ anchor = [p \in Projects |-> NoAnchor]
    /\ filter = NewRepoFilter /\ judged = [f \in Sessions |-> Unjudged] /\ flushing = "idle"
    /\ browser = ClosedBrowser
    /\ gits = {} /\ off = {} /\ changes = 0

TrackNext ==
    \/ BeginFlush \/ EndWalk \/ EndFlush
    \/ \E f \in Listed : Consider(f) \/ Load(f) \/ HeadWritten(f)
    \/ OpenBrowser \/ CloseBrowser
    \/ \E r \in browser.rows : Toggle(r)
    \/ \E d \in Markable : UserMarks(d)
    \/ \E g \in Layouts : GitChanges(g)
    \/ \E p \in Projects, ds \in Folders : AnchorWritten(p, ds)
    \/ \E f \in Listed, d \in Places : SessionMoves(f, d)

-----------------------------------------------------------------------------
(* Properties *)

RECURSIVE Above(_)

Above(d) == IF Parent[d] = d THEN {d} ELSE {d} \cup Above(Parent[d])

(* The directories whose marker governs d, said without a walk: those from d up to its checkout and the
   main checkout; outside git those up to home, or to the root for a directory that is not under home. *)
Reach(d) == {a \in Above(d) : Home \in Above(d) => Home \in Above(a)}
Checkouts(d, g) == {a \in Reach(d) \ {Home} : g[a].kind # "none"}
Nearest(d, g) == {a \in Checkouts(d, g) : g[a].kind # "broken" /\ Checkouts(d, g) \subseteq Above(a)}
Territory(d, g) ==
    IF Nearest(d, g) = {} THEN Reach(d)
    ELSE UNION {{a \in Reach(d) : c \in Above(a)} \cup ({g[c].main} \ {NoDir}) : c \in Nearest(d, g)}
Governed(d, g, ms) == Territory(d, g) \cap ms # {}

(* What there is to know of a session when the walk comes to it: its own directory, or one a session of
   the same project told earlier in this flush. *)
Told(f) ==
    CASE Kind[f] = "stored" -> {ran[f]}
      [] Kind[f] = "anchored" -> anchor[Project[f]].dirs
      [] OTHER -> {ran[e] : e \in {e \in Listed : Project[e] = Project[f]
                                        /\ \/ judged[e].cwd # NoDir
                                           \/ e = f /\ f \in head}}
ToldDirs(f) == {d \in Told(f) : Parent[d] # d}

(* The verdict of the filter (sources/ignore.go, Match) is the one its caches must not change: a session is
   kept only if no marker on the disk at that moment governs a directory it ran in, over the checkouts as
   they were at some moment of this flush, and it is dropped only if one does.  Worktrees follow their main
   checkout, any folder of a workspace counts, and nothing above a repository or above home does. *)
VerdictIsTrue ==
    \A f \in Sessions : judged[f].verdict = "unseen" =>
        /\ judged'[f].verdict = "kept" =>
              \A d \in ToldDirs(f) : \E g \in gits : ~Governed(d, g, markers)
        /\ judged'[f].verdict = "dropped" =>
              \E d \in ToldDirs(f), g \in gits : Governed(d, g, markers)

(* What is loaded was judged (sources/sessions.go, Load): a stored session that ships ran in a directory no
   marker governed when it was judged, although it may have moved between its listing and its load. *)
ShippedWasJudged ==
    \A f \in Sessions :
        judged[f].verdict = "kept" /\ judged'[f].verdict = "shipped" /\ Kind[f] = "stored"
        /\ Parent[ran[f]] # ran[f] =>
            \E g \in gits : ~Governed(ran[f], g, judged[f].by)

(* A row switched off stays off (cli/tracking.go, toggle): no later verdict of a flush keeps one of its
   sessions, until a marker is removed, the checkouts change or the session moves. *)
SwitchedOffIsDropped ==
    \A f \in Sessions :
        judged[f].verdict = "unseen" /\ f \in off /\ gits = {git} => judged'[f].verdict # "kept"

(* Switching a row touches what its marker governs and nothing else (cli/tracking.go, toggle;
   sources/ignore.go, Track): a directory outside the territory of the row's marker is governed after the
   switch exactly if it was before, however old the row on the screen is. *)
SwitchIsLocal ==
    \A r \in browser.rows :
        markers' # markers /\ Toggle(r) =>
            \A d \in Dirs : r.dir \notin Territory(d, git) =>
                (Governed(d, git, markers) <=> Governed(d, git, markers'))

(* A repository that is not tracked stays out (ignore.go, sessions.go, tracking.go): verdicts are
   true of the disk, what ships was judged where it ran, and a switch in the browser does what it
   shows and nothing else. *)
UntrackedStaysOut ==
    [][VerdictIsTrue /\ ShippedWasJudged /\ SwitchedOffIsDropped /\ SwitchIsLocal]_trackVars
=============================================================================
