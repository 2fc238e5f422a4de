------------------------------ MODULE Revisions ------------------------------
(***************************************************************************)
(* The data the interface history is made of (shared/revisions.ts): the    *)
(* revision of an interface document, the sequenced event, the snapshot    *)
(* that is written to the journal, and the validator that decides whether  *)
(* a stored snapshot may be loaded again.                                  *)
(*                                                                         *)
(* A document is a model value: its nodes are never inspected, only which  *)
(* document is shown matters.  The identifier "built-in" is 0 and          *)
(* "revision-N" is N.  createdAt and operationId are left out: no guard    *)
(* reads them.                                                             *)
(***************************************************************************)
EXTENDS Integers, FiniteSets

CONSTANTS
    Documents,   \* the valid interface documents
    BuiltIn,     \* defaultInterfaceDocument, the compiled recovery shell
    Extensions,  \* extension identifiers
    NoExtension  \* an event without extensionId

ASSUME DocumentsAssumption == BuiltIn \in Documents
ASSUME ExtensionsAssumption == NoExtension \notin Extensions

BuiltInId == 0

\* An absent revision identifier (optionalKey(RevisionId)).
NoId == -1

Ids == Nat \union {NoId}

Statuses == {"proposed", "previewed", "accepted", "rejected"}

Sources == {"built-in", "user", "shaper", "extension", "recovery"}

EventTypes == {"initialized", "revision-proposed", "revision-previewed",
               "revision-accepted", "revision-rejected", "revision-rolled-back",
               "extension-failed", "recovery-requested", "safe-mode-entered"}

Revisions == [id: Ids, parentId: Ids, status: Statuses,
              source: Sources, document: Documents]

\* The absent proposal.
NoRevision == [id |-> NoId, parentId |-> NoId, status |-> "rejected",
               source |-> "built-in", document |-> BuiltIn]

Events == [sequence: Nat, type: EventTypes, revisionId: Ids,
           extensionId: Extensions \union {NoExtension}]

Snapshots == [active: Revisions, lastKnownGood: Revisions, proposal: Revisions,
              safeMode: BOOLEAN, disabledExtensions: SUBSET Extensions,
              lastEvent: Events]

InitialRevision == [id |-> BuiltInId, parentId |-> NoId, status |-> "accepted",
                    source |-> "built-in", document |-> BuiltIn]

InitialEvent == [sequence |-> 0, type |-> "initialized",
                 revisionId |-> BuiltInId, extensionId |-> NoExtension]

isRollbackAvailable(snapshot) ==
    /\ ~snapshot.safeMode
    /\ snapshot.proposal = NoRevision
    /\ snapshot.active.id # snapshot.lastKnownGood.id

isInitialRevision(revision) == revision = InitialRevision

\* A revision that may be stored as active or last known good.
ValidDecided(revision) ==
    /\ revision.status = "accepted"
    /\ revision.source = "built-in" => isInitialRevision(revision)

\* A revision that may be stored as the proposal of a snapshot.
ValidProposal(snapshot) ==
    \/ snapshot.proposal = NoRevision
    \/ /\ snapshot.proposal.status \in {"proposed", "previewed"}
       /\ snapshot.proposal.source # "built-in"
       /\ snapshot.proposal.parentId = snapshot.active.id

\* An "initialized" event stands only for the untouched built-in interface,
\* and is the only event with sequence 0.
ValidOrigin(snapshot) ==
    IF snapshot.lastEvent.type = "initialized"
    THEN /\ snapshot.lastEvent = InitialEvent
         /\ isInitialRevision(snapshot.active)
         /\ isInitialRevision(snapshot.lastKnownGood)
         /\ snapshot.proposal = NoRevision
         /\ ~snapshot.safeMode
         /\ snapshot.disabledExtensions = {}
    ELSE snapshot.lastEvent.sequence # 0

hasRevisionOnly(event) == event.revisionId # NoId /\ event.extensionId = NoExtension

hasExtensionOnly(event) == event.revisionId = NoId /\ event.extensionId # NoExtension

isBuiltInSafeState(snapshot) ==
    /\ snapshot.safeMode
    /\ isInitialRevision(snapshot.active)
    /\ snapshot.proposal = NoRevision

eventMatchesState(snapshot) ==
    LET event == snapshot.lastEvent
    IN  \/ event.type = "initialized"
        \/ /\ event.type \in {"revision-proposed", "revision-previewed"}
           /\ ~snapshot.safeMode
           /\ hasRevisionOnly(event)
           /\ snapshot.proposal.id = event.revisionId
           /\ snapshot.proposal.status =
                 IF event.type = "revision-proposed" THEN "proposed" ELSE "previewed"
        \/ /\ event.type \in {"revision-accepted", "revision-rejected", "revision-rolled-back"}
           /\ ~snapshot.safeMode
           /\ hasRevisionOnly(event)
           /\ snapshot.proposal = NoRevision
           /\ event.type # "revision-rejected" => snapshot.active.id = event.revisionId
           /\ event.type = "revision-rolled-back" =>
                 /\ snapshot.lastKnownGood.id = event.revisionId
                 /\ snapshot.active.source = "recovery"
        \/ /\ event.type = "extension-failed"
           /\ ~snapshot.safeMode
           /\ hasExtensionOnly(event)
        \/ /\ event.type = "recovery-requested"
           /\ isBuiltInSafeState(snapshot)
           /\ event.revisionId = snapshot.lastKnownGood.id
           /\ event.extensionId \in snapshot.disabledExtensions
        \/ /\ event.type = "safe-mode-entered"
           /\ isBuiltInSafeState(snapshot)
           /\ hasRevisionOnly(event)
           /\ event.revisionId = snapshot.lastKnownGood.id

validateShapingSnapshot(snapshot) ==
    /\ ValidDecided(snapshot.active)
    /\ ValidDecided(snapshot.lastKnownGood)
    /\ ValidProposal(snapshot)
    /\ ValidOrigin(snapshot)
    /\ eventMatchesState(snapshot)
==============================================================================
