----------------------------- MODULE AdminConfig -----------------------------
(***************************************************************************)
(* The fleet manager's administration of one organization's configuration: *)
(* an administrator and a partner editing it at the same time through      *)
(* conditional writes, the record of who authored it, and the partner's    *)
(* credential (fleet-manager admin_http.go, config_authorship.go,          *)
(* manager.go, admin.go).  A request is a sequence of store operations;    *)
(* other requests, and the death of the replica that serves it, come       *)
(* between any two of them.  A configuration is its collection, whether    *)
(* the install's own recipient reads what it archives (install, a plain    *)
(* boolean of the request), and the other settings (rest, pointers: left   *)
(* out is told from empty).  Recipients are stated by every full edit or   *)
(* it is refused, and are left out.                                        *)
(***************************************************************************)
EXTENDS Naturals, FiniteSets, TLC

CONSTANTS Requests,       \* request slots
          Collections,    \* collections an editor may state
          Settings,       \* values of the other settings
          MaxStamp,       \* bound on the clock
          MaxVersion,     \* bound on committed configurations
          MaxRecords,     \* bound on authorship records
          MaxSecret       \* bound on minted partner secrets

Keep == "keep"               \* a field the request does not mention
Broken == "broken"           \* a stored collection that no longer parses

ASSUME AdminAssumption ==
    /\ {Keep, Broken} \cap (Collections \cup Settings) = {}
    /\ Settings # {}
    /\ MaxStamp \in Nat \ {0} /\ MaxVersion \in Nat \ {0} /\ MaxSecret \in Nat \ {0}

VARIABLES config,         \* the stored configuration, or NoConfig
          authorship,     \* authorship records, keyed by content
          committedBy,    \* history: who really wrote the stored configuration
          clock, request
configVars == <<config, authorship, committedBy, clock, request>>

VARIABLES partner,        \* the partner credential record
          issued,         \* history: secrets returned by a mint
          ended,          \* history: secrets a revocation ended
          minting         \* requests of an administrator that mint or revoke
partnerVars == <<partner, issued, ended, minting>>

NoConfig == [version |-> 0]
NoPartner == [secret |-> 0, revoked |-> FALSE, version |-> 0]
Switch == {"on", "off"}
Content == [coll : Collections \cup {Broken}, install : Switch, rest : Settings,
            stamp : 0..MaxStamp]
Stored(content, version) ==
    [coll |-> content.coll, install |-> content.install, rest |-> content.rest,
     stamp |-> content.stamp, version |-> version]
ContentOf(c) == [coll |-> c.coll, install |-> c.install, rest |-> c.rest, stamp |-> c.stamp]
Idle == [pc |-> "idle"]

ConfigTypeOK ==
    /\ config = NoConfig \/ (ContentOf(config) \in Content /\ config.version \in 1..MaxVersion)
    /\ \A a \in authorship : a.content \in Content /\ a.author \in {"administrator", "partner"}
    /\ partner.secret \in 0..MaxSecret /\ partner.revoked \in BOOLEAN
    /\ issued \subseteq 1..MaxSecret /\ ended \subseteq 1..MaxSecret
    /\ clock \in 1..MaxStamp

(* An organization that does not exist yet, or one with a collection an older release stored. *)
ConfigInit ==
    /\ \/ config = NoConfig
       \/ \E rest \in Settings :
            config = [coll |-> Broken, install |-> "on", rest |-> rest, stamp |-> 0, version |-> 1]
    /\ authorship = {} /\ committedBy = "unknown"
    /\ clock = 1 /\ request = [r \in Requests |-> Idle]

PartnerInit ==
    /\ \/ partner = NoPartner /\ issued = {}
       \/ partner = [secret |-> 1, revoked |-> FALSE, version |-> 1] /\ issued = {1}
    /\ ended = {} /\ minting = [r \in Requests |-> Idle]

-----------------------------------------------------------------------------
(* Who may call what.  The reporter reaches neither route. *)

PartnerRoutes == {"putCollection"}
AdminRoutes == {"create", "putConfig", "putCollection", "mint", "revoke"}

(* VerifyPartnerCredential: a missing or revoked record authenticates nothing. *)
Authenticates(secret) == secret = partner.secret /\ secret # 0 /\ ~partner.revoked

(* A request passes adminAuth; its If-Match version was read by some earlier GET. *)
BeginEdit(r) ==
    /\ request[r].pc = "idle" /\ config.version < MaxVersion
    /\ \E who \in {"administrator", "partner"}, kind \in {"create", "putConfig", "putCollection"},
          coll \in Collections \cup {Keep}, install \in Switch \cup {Keep},
          rest \in Settings \cup {Keep}, match \in 0..config.version :
         /\ kind \in (IF who = "partner" THEN PartnerRoutes ELSE AdminRoutes)
         /\ who = "partner" => \E s \in issued : Authenticates(s)
         /\ kind = "putCollection" => rest = Keep /\ install = Keep /\ coll # Keep
         /\ kind = "create" => coll # Keep /\ rest # Keep /\ match = 0
         /\ kind # "create" => match > 0
         /\ request' = [request EXCEPT ![r] =
                [pc |-> "load", who |-> who, kind |-> kind, coll |-> coll, install |-> install,
                 rest |-> rest, match |-> match]]
    /\ UNCHANGED <<config, authorship, committedBy, clock, partnerVars>>

Carried(field, current) == IF field = Keep THEN current ELSE field

(* configFromAdminRequest: a boolean the request leaves out is false. *)
Decoded(install) == IF install = Keep THEN "off" ELSE install

(* What a request says of the configuration; "reset" is a full edit that leaves the boolean out. *)
StatedBy(q) ==
    (IF q.coll # Keep THEN {"coll"} ELSE {}) \cup (IF q.rest # Keep THEN {"rest"} ELSE {})
      \cup (IF q.install # Keep THEN {"install"}
            ELSE IF q.kind # "putCollection" THEN {"reset"} ELSE {})

(* Mutant: the collection's own route builds its configuration like a full edit. *)
NewInstallAlways(q) == Decoded(q.install)

(* The one setting a full edit always takes from the request; the collection's route carries it. *)
NewInstall(q) == IF q.kind = "putCollection" THEN config.install ELSE Decoded(q.install)

(* A stated collection is also held against what the installs report: the answer is the fleet's,
   but what is stored already is never refused. *)
FleetMayRefuse(q) == q.kind # "create" /\ q.coll \notin {Keep, config.coll}

(* The handler loads the configuration, a separate read, for the pointer fields the request leaves
   out, and validates: normalizeCollection refuses to carry a broken collection over. *)
LoadAndValidate(r) ==
    LET q == request[r]
        coll == IF q.kind = "create" THEN q.coll ELSE Carried(q.coll, config.coll)
        rest == IF q.kind = "create" THEN q.rest ELSE Carried(q.rest, config.rest)
    IN  /\ q.pc = "load"
        /\ \E refused \in {FALSE, FleetMayRefuse(q)} :
             request' = [request EXCEPT ![r] =
                IF coll = Broken \/ refused THEN Idle
                ELSE [pc |-> "prepare", who |-> q.who, match |-> q.match, coll |-> coll,
                      install |-> NewInstall(q), rest |-> rest, stated |-> StatedBy(q)]]
        /\ UNCHANGED <<config, authorship, committedBy, clock, partnerVars>>

NewContent(q) ==
    [coll |-> q.coll, install |-> q.install, rest |-> q.rest, stamp |-> clock]

Prepared(q, content) ==
    [pc |-> "commit", who |-> q.who, match |-> q.match, stated |-> q.stated, content |-> content]

(* Mutant: a record that is already there is taken for this write's own. *)
PrepareAnyAuthor(r) ==
    LET q == request[r]
        content == NewContent(q)
    IN  /\ q.pc = "prepare" /\ Cardinality(authorship) < MaxRecords
        /\ authorship' = IF \E a \in authorship : a.content = content THEN authorship
                         ELSE authorship \cup {[content |-> content, author |-> q.who]}
        /\ request' = [request EXCEPT ![r] = Prepared(q, content)]
        /\ UNCHANGED <<config, committedBy, clock, partnerVars>>

(* prepareConfigWrite: the authorship record is created before the configuration names it. *)
PrepareConfigWrite(r) ==
    LET q == request[r]
        content == NewContent(q)
        existing == {a \in authorship : a.content = content}
    IN  /\ q.pc = "prepare" /\ Cardinality(authorship) < MaxRecords
        /\ authorship' = IF existing = {} THEN {[content |-> content, author |-> q.who]}
                                               \cup authorship ELSE authorship
        /\ request' = [request EXCEPT ![r] =
               IF \A a \in existing : a.author = q.who
               THEN Prepared(q, content) ELSE Idle]
        /\ UNCHANGED <<config, committedBy, clock, partnerVars>>

(* Mutant: the write is not conditional. *)
CommitAnyway(r) ==
    LET q == request[r]
    IN  /\ q.pc = "commit" /\ config.version < MaxVersion
        /\ request' = [request EXCEPT ![r] = Idle]
        /\ config' = Stored(q.content, config.version + 1)
        /\ committedBy' = q.who
        /\ UNCHANGED <<authorship, clock, partnerVars>>

(* Create for a new organization, Replace at the If-Match version otherwise. *)
CommitConfig(r) ==
    LET q == request[r]
        matches == config.version = q.match
    IN  /\ q.pc = "commit" /\ (matches => config.version < MaxVersion)
        /\ request' = [request EXCEPT ![r] = Idle]
        /\ config' = IF matches THEN Stored(q.content, config.version + 1) ELSE config
        /\ committedBy' = IF matches THEN q.who ELSE committedBy
        /\ UNCHANGED <<authorship, clock, partnerVars>>

-----------------------------------------------------------------------------
(* The partner credential, minted and revoked by an administrator. *)

ReadPartner(r, kind) ==
    /\ minting[r].pc = "idle" /\ kind \in AdminRoutes
    /\ minting' = [minting EXCEPT ![r] = [pc |-> kind, record |-> partner]]
    /\ UNCHANGED <<partner, issued, ended, configVars>>

(* Mutant: a second mint replaces an active credential. *)
MintOver(r) ==
    /\ minting[r].pc = "mint" /\ partner.secret < MaxSecret
    /\ minting' = [minting EXCEPT ![r] = Idle]
    /\ partner' = [secret |-> partner.secret + 1, revoked |-> FALSE,
                   version |-> partner.version + 1]
    /\ issued' = issued \cup {partner.secret + 1}
    /\ UNCHANGED <<ended, configVars>>

(* MintPartnerCredential: an active credential is a conflict; a lost reply loses the secret. *)
MintPartnerCredential(r) ==
    LET rec == minting[r].record
        free == (rec.secret = 0 \/ rec.revoked) /\ rec.version = partner.version
    IN  /\ minting[r].pc = "mint" /\ partner.secret < MaxSecret
        /\ minting' = [minting EXCEPT ![r] = Idle]
        /\ partner' = IF free THEN [secret |-> partner.secret + 1, revoked |-> FALSE,
                                    version |-> partner.version + 1] ELSE partner
        /\ \E answered \in BOOLEAN :
             issued' = IF free /\ answered THEN issued \cup {partner.secret + 1} ELSE issued
        /\ UNCHANGED <<ended, configVars>>

RevokePartnerCredential(r) ==
    LET rec == minting[r].record
        done == rec.secret # 0 /\ ~rec.revoked /\ rec.version = partner.version
    IN  /\ minting[r].pc = "revoke"
        /\ minting' = [minting EXCEPT ![r] = Idle]
        /\ partner' = IF done THEN [partner EXCEPT !.revoked = TRUE, !.version = @ + 1] ELSE partner
        /\ ended' = IF done THEN ended \cup {rec.secret} ELSE ended
        /\ UNCHANGED <<issued, configVars>>

-----------------------------------------------------------------------------
(* The replica serving a request may die, or its client disconnect, between any two steps. *)
AbandonRequest(r) ==
    /\ request[r].pc # "idle"
    /\ request' = [request EXCEPT ![r] = Idle]
    /\ UNCHANGED <<config, authorship, committedBy, clock, partnerVars>>

PassTime ==
    /\ clock < MaxStamp /\ clock' = clock + 1
    /\ UNCHANGED <<config, authorship, committedBy, request, partnerVars>>

ConfigNext ==
    \/ \E r \in Requests :
         \/ BeginEdit(r) \/ LoadAndValidate(r) \/ PrepareConfigWrite(r)
         \/ CommitConfig(r) \/ AbandonRequest(r)
    \/ PassTime

PartnerNext ==
    \E r \in Requests :
      \/ ReadPartner(r, "mint") \/ ReadPartner(r, "revoke")
      \/ MintPartnerCredential(r) \/ RevokePartnerCredential(r)

-----------------------------------------------------------------------------
(* Properties. *)

(* LoadConfigWithAuthor's answer for the stored configuration. *)
ShownAuthor ==
    LET records == {a \in authorship : a.content = ContentOf(config)}
    IN  IF records = {} THEN "unknown" ELSE (CHOOSE a \in records : TRUE).author

(* The author the service displays is the one who committed the stored configuration, also when
   other requests prepared a record for the same content and lost, died or came first. *)
AuthorIsHonest == config # NoConfig => ShownAuthor = committedBy

(* The step is the end of r's request, and what it may have changed if it wrote. *)
CommittedBy(r) == request[r].pc = "commit" /\ request'[r] = Idle
OnlyStated(q) ==
    /\ config'.coll # config.coll => "coll" \in q.stated
    /\ config'.rest # config.rest => "rest" \in q.stated /\ q.who = "administrator"
    /\ config'.install # config.install =>
          /\ q.who = "administrator"
          /\ "install" \in q.stated \/ ("reset" \in q.stated /\ config'.install = "off")

(* "keeps every other setting as stored" (handleAdminPutCollection), "a client that does not mention
   collection must not erase it" (handleAdminPutConfig): a commit changes only what its request
   stated, however old the read its other fields come from, and a partner changes the collection
   alone.  The exception is the code's: a full edit by an administrator that leaves
   include_install_recipient out switches it off. *)
UnstatedIsKept ==
    [][config # NoConfig /\ config' # config =>
         \E r \in Requests : CommittedBy(r) /\ OnlyStated(request[r])]_configVars

(* The same without the exception.  The code does not keep it. *)
NothingUnstatedChanges ==
    [][config # NoConfig /\ config' # config =>
         \E r \in Requests :
            /\ CommittedBy(r)
            /\ config'.install # config.install => "install" \in request[r].stated]_configVars

(* "Replacing would cut the partner off at once; a provisioning script run twice must not"
   (MintPartnerCredential, and partner_test.go's second mint is a conflict): a secret handed out
   keeps working until it is revoked, also when mints and revocations overlap. *)
MintedSecretWorks == \A s \in issued : s \in ended \/ Authenticates(s)

(* "MintPartnerCredential replaces any earlier credential, which stops working on the next request"
   (admin.go:144).  The code refuses to: after a mint, at its request, an earlier secret still works. *)
MintReplaces ==
    [][\A r \in Requests :
          minting[r].pc = "mint" /\ minting'[r].pc = "idle" =>
             \A s \in issued : ~Authenticates(s)']_partnerVars
=============================================================================
