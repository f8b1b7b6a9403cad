--------------------------- MODULE MCConfigRefresh ---------------------------
(* The edits cover every rule of the merge from the layer that may, or the    *)
(* layer that may not, apply it; a refusal that takes the course of another   *)
(* one is left out to keep the instance small.                                *)
EXTENDS ConfigRefresh

MCOrder == <<"a">>

Entry(f, v) == [EmptyOverride("a") EXCEPT ![f] = v]
(* An entry the user's "off" skips, with exclusions and an enricher that is not attached. *)
Skipped == [Entry("add", {"priv"}) EXCEPT !.enabled = "on", !.foreign = TRUE]

Common == {Entry("enabled", "off"), Entry("roots", <<"work">>), Entry("add", {"priv"})}
MCUserOverrides ==
    Common \cup {Entry("roots", <<"ssh">>), Entry("roots", <<"var", "work">>), Entry("exclude", {"tmp"}),
                 Entry("include", {WideGlob}), Entry("foreign", TRUE)}
MCRemoteOverrides ==
    Common \cup {[Entry("enabled", "on") EXCEPT !.join = "on"], Entry("include", {WideGlob}),
                 Entry("roots", <<"broken">>), Entry("add", {BadGlob}), EmptyOverride("z"), Skipped}

With(overrides, docs) == {[EmptyDoc EXCEPT !.sources = <<o>>] : o \in overrides} \cup docs

MCUserEdits ==
    With(MCUserOverrides,
         {[EmptyDoc EXCEPT !.envelope = TRUE], [EmptyDoc EXCEPT !.packs = {"missing"}],
          [EmptyDoc EXCEPT !.targets = "bad"],
          [EmptyDoc EXCEPT !.autoupdate = "off", !.recipients = {"own"}, !.stateDir = "there"]})
MCRemoteEdits ==
    With(MCRemoteOverrides,
         {[EmptyDoc EXCEPT !.version = "refused"], [EmptyDoc EXCEPT !.autoupdate = "on", !.packs = {"extra"}], [EmptyDoc EXCEPT !.recipients = {"org"}],
          [EmptyDoc EXCEPT !.recipients = {BadRecipient}], [EmptyDoc EXCEPT !.install = "off"],
          [EmptyDoc EXCEPT !.targets = "good"]})

(* For the one case the reduced copy is refused where the full one is not. *)
MCDisabling == With({Entry("enabled", "off")}, {})
MCSkipped == With({Skipped}, {})
=============================================================================
