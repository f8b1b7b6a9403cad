--------------------------- MODULE MCFleetRecords ---------------------------
(* The fleet manager's records outside enrollment and upload live under keys *)
(* of their own and no operation touches two of them, so a behaviour         *)
(* exercises one area; focus says which.                                     *)
EXTENDS AdminConfig, FleetActivity, InstallTags, TelemetryRelay

VARIABLE focus
vars == <<configVars, partnerVars, activityVars, tagVars, relayVars, focus>>

MCHostKey == [i \in TagInstalls |-> IF i = "i3" THEN "lone" ELSE "twin"]

(* Requests and touches are told apart by nothing but their slot, and the other settings are
   carried, never looked at. *)
Slots == Permutations(Requests) \cup Permutations(Touchers) \cup Permutations(Settings)

Init ==
    /\ ConfigInit /\ PartnerInit /\ ActivityInit /\ TagsInit /\ RelayInit
    /\ focus \in {"config", "partner", "activity", "tags", "relay"}
    /\ focus # "config" => config = NoConfig
    /\ focus # "partner" => partner.secret = 1

Next ==
    /\ UNCHANGED focus
    /\ \/ focus = "config" /\ ConfigNext /\ UNCHANGED <<activityVars, tagVars, relayVars>>
       \/ focus = "partner" /\ PartnerNext /\ UNCHANGED <<activityVars, tagVars, relayVars>>
       \/ focus = "activity" /\ ActivityNext
            /\ UNCHANGED <<configVars, partnerVars, tagVars, relayVars>>
       \/ focus = "tags" /\ TagsNext
            /\ UNCHANGED <<configVars, partnerVars, activityVars, relayVars>>
       \/ focus = "relay" /\ RelayNext
            /\ UNCHANGED <<configVars, partnerVars, activityVars, tagVars>>

Spec == Init /\ [][Next]_vars

(* The types of the four areas, and the limits their validation keeps: metadata entries per
   install, buckets in the relay's table, tokens in a bucket. *)
TypeOK == ConfigTypeOK /\ ActivityTypeOK /\ TagsTypeOK /\ RelayTypeOK

(* The rule of InstallTags, which needs no state, is evaluated once per behaviour. *)
ImportIsUnambiguous == focus = "tags" /\ tags = [i \in TagInstalls |-> [body |-> Blank, version |-> 0]]
                          => NoOwnerIsGuessed

(* Administration (config_authorship.go, admin.go): the displayed author is the one who committed,
   and a partner's secret works until it is revoked. *)
AdminIsHonest == TypeOK /\ AuthorIsHonest /\ MintedSecretWorks

(* Activity (seen.go, catalog.go): a digest on record resolves, and a changed catalog is not
   hidden by the throttle. *)
ActivityIsCurrent == DigestResolves /\ CatalogIsLatest

(* Tags and imports (tags.go, metadata.go): no successful edit is erased, no owner is guessed. *)
TagsAreKept == EditsAreSerial /\ ImportIsUnambiguous

(* The relay (telemetry.go, telemetry_identity.go): one identity for all replicas, and no tokens
   for being evicted. *)
RelayIsFair == OneIdentity /\ RateIsKept
=============================================================================
