------------------------- MODULE OpportunityLifecycle -------------------------
(***************************************************************************)
(* The deals (opportunities) of one conversation and the commands of       *)
(* CrmOpportunityCommandService.  A command is a request: a patch reads    *)
(* the card it writes back before its transaction; a keyed command looks   *)
(* for the event of an earlier run of its key before it locks anything;    *)
(* then one transaction, under the card's row lock (and the conversation's *)
(* advisory lock where a deal is created), checks and writes.  Two more    *)
(* writers take no version: the projection of conversation ownership, and  *)
(* the inbox's ensure_opportunity, which holds the conversation's lock     *)
(* while it looks for its key.  And the inbox saves conversations as it    *)
(* read them, without a lock, their pointer to the deal among the rest.    *)
(*                                                                         *)
(* Which published stage policy, permission or reason code refuses a       *)
(* command is left open: any command that has begun may be refused.        *)
(***************************************************************************)
EXTENDS Naturals, FiniteSets

CONSTANTS
    Request,      \* requests in progress at once
    Key,          \* idempotency keys that clients send
    NoKey,        \* a request without one
    MaxCards,     \* bound: deals ever created
    MaxCommands,  \* bound: transactions that write
    MaxCopies,    \* bound: conversations read and not yet saved, at once
    Pipelines,    \* the sales pipelines
    Stages,       \* kinds of stage a pipeline has
    Sent          \* the commands that clients, agents and automations send

ASSUME LifecycleAssumption ==
    /\ MaxCards \in Nat \ {0} /\ {MaxCommands, MaxCopies} \subseteq Nat
    /\ NoKey \notin Key
    /\ Stages \subseteq {"first", "next", "won", "lost"}
    /\ "first" \in Stages /\ Pipelines # {}

VARIABLES
    card,       \* Id -> the row of crm_opportunities
    pointer,    \* inbox_conversations.opportunity_id; 0 is null
    copies,     \* the pointer as requests of the inbox have read it
    events,     \* keyed rows of crm_opportunity_events: [key, type]
    req,        \* Request -> what it is doing
    commands,   \* transactions that wrote so far
    marks,      \* history: "reopened", a person took a closed deal back;
                \* "rewound", a save put another pointer back
    lost,       \* history: fields a patch put back to what it had read
    effects     \* history: Key -> runs of the key that acted

lifecycleVars == <<card, pointer, copies, events, req, commands, marks, lost,
                   effects>>

Id == 1..MaxCards

Status(stage) == IF stage \in {"won", "lost"} THEN stage ELSE "open"

Card == [row : {"none", "live", "deleted"}, linked : BOOLEAN,
         source : 0..MaxCards, pipe : Pipelines, stage : Stages,
         status : {"open", "won", "lost"}, mode : {"automatic", "manual"},
         owner : {"nobody", "somebody"},
         ownerBy : {"command", "projection"}, version : 0..MaxCommands]

\* What a patch has read of its card.
Snapshot == [owner : {"nobody", "somebody"}, version : 0..MaxCommands]

Op == {"create", "reconvert", "copy", "move", "status", "transfer",
       "autonomy", "distribute", "patch", "delete"}

\* id is the card, or the source; auto: an automation or an agent asks; link:
\* for the conversation; place: with a sortOrder or beforeOpportunityId.
Command == [op : Op, id : 0..MaxCards, stage : Stages, pipe : Pipelines,
            mode : {"automatic", "manual"}, link : BOOLEAN, place : BOOLEAN,
            actor : {"user", "override", "auto"}, key : Key \cup {NoKey},
            versioned : BOOLEAN]

NoCommand == [op |-> "create", id |-> 0, stage |-> "first",
              pipe |-> CHOOSE p \in Pipelines : TRUE, mode |-> "automatic",
              link |-> FALSE, place |-> FALSE, actor |-> "user",
              key |-> NoKey, versioned |-> FALSE]

\* Only a creation names no card.
ASSUME SentAssumption ==
    Sent \subseteq {m \in Command : m.op # "create" => m.id # 0}

NoCard == [row |-> "none", linked |-> FALSE, source |-> 0,
           pipe |-> CHOOSE p \in Pipelines : TRUE, stage |-> "first",
           status |-> "open", mode |-> "automatic",
           owner |-> "nobody", ownerBy |-> "command", version |-> 0]

Resting == [pc |-> "rest", cmd |-> NoCommand,
            snap |-> [owner |-> "nobody", version |-> 0]]

(***************************************************************************)
(* The type invariant.                                                     *)
(***************************************************************************)
LifecycleTypeOK ==
    /\ card \in [Id -> Card]
    /\ pointer \in 0..MaxCards /\ copies \subseteq 0..MaxCards
    /\ events \subseteq [key : Key, type : {"created", "derived",
                          "updated", "stage", "status", "transfer", "mode",
                          "owner"}]
    /\ req \in [Request -> [pc : {"rest", "read", "begun"}, cmd : Command,
                            snap : Snapshot]]
    /\ commands \in 0..MaxCommands
    /\ marks \subseteq {"reopened", "rewound"}
    /\ lost \subseteq [versioned : BOOLEAN, by : {"command", "projection"}]
    /\ effects \in [Key -> 0..MaxCommands]

LifecycleInit ==
    /\ card = [c \in Id |-> NoCard]
    /\ pointer = 0 /\ copies = {} /\ events = {}
    /\ req = [r \in Request |-> Resting]
    /\ commands = 0 /\ marks = {} /\ lost = {}
    /\ effects = [k \in Key |-> 0]

-----------------------------------------------------------------------------
(* What the commands look for.                                             *)

Live(c) == card[c].row = "live"
Open(c) == Live(c) /\ card[c].status = "open"
Linked == {c \in Id : Live(c) /\ card[c].linked}

\* uq_crm_opportunity_open_inbox_conversation
Indexed(cards) ==
    Cardinality({c \in Id : /\ cards[c].row = "live" /\ cards[c].linked
                            /\ cards[c].status = "open"}) <= 1

\* Mutant of VersionHolds: the client's version is not compared.
VersionUnread(r) == TRUE

\* assertVersion: the version the client saw, if it sends one.
VersionHolds(r) ==
    req[r].cmd.versioned =>
        req[r].snap.version = card[req[r].cmd.id].version

\* Mutant of TypesFree: no unique index on the key and the type of an event.
TypesFreeAlways(k, types) == TRUE

\* uq_crm_opportunity_events_idempotency_type
TypesFree(k, types) == \A y \in types : [key |-> k, type |-> y] \notin events

\* appendHistory, once per type: a row that exists aborts the transaction.
AppendHistory(k, types) ==
    IF k = NoKey THEN UNCHANGED events
    ELSE /\ TypesFree(k, types)
         /\ events' = events \cup [key : {k}, type : types]

Answered(k) == \E e \in events : e.key = k

-----------------------------------------------------------------------------
(* A request's way to its transaction.                                     *)

ReadsFirst(m) == m.op = "patch"

\* The service reads the card it is going to write back.
Read(r, m) ==
    /\ req[r].pc = "rest" /\ ReadsFirst(m) /\ Live(m.id)
    /\ req' = [req EXCEPT ![r] =
                [pc |-> "read", cmd |-> m,
                 snap |-> [owner |-> card[m.id].owner,
                           version |-> card[m.id].version]]]
    /\ UNCHANGED <<card, pointer, copies, events, commands, marks, lost,
                   effects>>

\* findReplay, before any lock: an earlier run of the key is answered as is.
\* A key stands for one command, which may be sent again.
Begin(r, m) ==
    /\ m.key # NoKey
    /\ \/ req[r].pc = "rest" /\ ~ReadsFirst(m)
       \/ req[r].pc = "read" /\ m = req[r].cmd
    /\ m.id # 0 => Live(m.id)
    /\ \A q \in Request :
         req[q].pc # "rest" /\ req[q].cmd.key = m.key => req[q].cmd = m
    /\ req' = [req EXCEPT ![r] = IF Answered(m.key) THEN Resting
                                 ELSE [@ EXCEPT !.pc = "begun", !.cmd = m]]
    /\ UNCHANGED <<card, pointer, copies, events, commands, marks, lost,
                   effects>>

\* A policy, a permission, the version, the key or the index refuses it.
Refuse(r) ==
    /\ req[r].pc # "rest"
    /\ req' = [req EXCEPT ![r] = Resting]
    /\ UNCHANGED <<card, pointer, copies, events, commands, marks, lost,
                   effects>>

\* r is in the transaction of m; without a key or a read nothing went before.
Runs(r, m) ==
    \/ req[r].pc = "begun" /\ m = req[r].cmd
    \/ req[r].pc = "read" /\ m = req[r].cmd /\ m.key = NoKey
    \/ req[r].pc = "rest" /\ m.key = NoKey /\ ~ReadsFirst(m)

\* What a card is apart from its version, its place among the cards of its
\* stage, and the reason it was lost for.
Substance(row) == [row EXCEPT !.version = 0]

\* The command changes a deal, or one comes to be; a patch always names fields.
Acts(m, cards) ==
    \/ m.op = "patch"
    \/ \E c \in Id : Substance(cards[c]) # Substance(card[c])

\* The transaction commits these cards, pointer and event types.
Commit(r, m, cards, to, types) ==
    /\ commands < MaxCommands /\ commands' = commands + 1
    /\ Indexed(cards)
    /\ card' = cards /\ pointer' = to
    /\ AppendHistory(m.key, types)
    /\ effects' = [k \in Key |->
                     IF k = m.key /\ Acts(m, cards)
                       THEN effects[k] + 1 ELSE effects[k]]
    /\ req' = [req EXCEPT ![r] = Resting]
    /\ UNCHANGED copies

\* r runs op on a card that is there, and the version agrees.
Locked(r, m, op) ==
    /\ m.op = op /\ Runs(r, m)
    /\ Live(m.id)
    /\ VersionHolds(r)

\* Mutant of Bump: the command and the version column both advance it.
BumpTwice(row) == [row EXCEPT !.version = @ + 2]

Bump(row) == [row EXCEPT !.version = @ + 1]

\* The id of the next row.
NewId == {c \in Id : /\ card[c].row = "none"
                     /\ \A d \in Id : d < c => card[d].row # "none"}

NewCard(linked, source, stage, pipe, mode) ==
    [NoCard EXCEPT !.row = "live", !.linked = linked, !.source = source,
                   !.stage = stage, !.status = Status(stage), !.pipe = pipe,
                   !.mode = mode,
                   !.version = 1]

-----------------------------------------------------------------------------
(* Deals that come to be.                                                  *)

\* createOpportunity: for a conversation, only its first.
Create(r, m) ==
    LET linked == m.link IN
    \E c \in NewId :
      /\ m.op = "create" /\ Runs(r, m)
      /\ linked => Linked = {} /\ pointer = 0
      /\ Commit(r, m, [card EXCEPT ![c] = NewCard(linked, 0, m.stage, m.pipe,
                                              "automatic")],
                IF linked THEN c ELSE pointer, {"created"})
      /\ UNCHANGED <<marks, lost>>

\* A second negotiation about the same lead, outside the conversation.
Copy(r, m) ==
    \E c \in NewId :
      /\ Locked(r, m, "copy") /\ Status(m.stage) = "open"
      /\ Commit(r, m, [card EXCEPT ![c] = NewCard(FALSE, m.id, m.stage, m.pipe,
                                              "automatic")],
                pointer, {"derived"})
      /\ UNCHANGED <<marks, lost>>

\* Mutant of CanReconvert: any closed deal of the conversation may be taken.
CanReconvertAny(c) ==
    /\ Live(c) /\ ~Open(c)
    /\ card[c].linked => \A d \in Linked : ~Open(d)

\* The source is closed and is the conversation's primary deal, if any is.
CanReconvert(c) ==
    /\ Live(c) /\ ~Open(c)
    /\ card[c].linked =>
         pointer \in {0, c} /\ \A d \in Linked : ~Open(d)

\* Mutant of PointerTo: the conversation keeps its closed deal.
PointerToSource(linked, c) == pointer

PointerTo(linked, c) == IF linked THEN c ELSE pointer

Reconvert(r, m) ==
    \E c \in NewId :
      /\ Locked(r, m, "reconvert") /\ CanReconvert(m.id)
      /\ Commit(r, m, [card EXCEPT ![c] = NewCard(card[m.id].linked, m.id,
                                              "first", m.pipe, "automatic")],
                PointerTo(card[m.id].linked, c), {"derived"})
      /\ UNCHANGED <<marks, lost>>

\* The closed deal ensureOpportunity starts from: the primary, else the newest.
TerminalSource ==
    IF pointer \in Linked THEN pointer
    ELSE CHOOSE c \in Linked : \A d \in Linked : d <= c

\* ensureOpportunity of the governed action worker: the open deal is touched
\* and becomes the primary; else the closed one is reconverted; else the first
\* is opened, whatever the pointer says.
EnsureOpportunity ==
    /\ commands < MaxCommands /\ commands' = commands + 1
    /\ \/ \E c \in Linked :
            /\ Open(c) /\ pointer' = c
            /\ card' = [card EXCEPT ![c] = Bump(@)]
       \/ \E c \in NewId, p \in Pipelines :
            /\ \A d \in Linked : ~Open(d)
            /\ Linked # {} => CanReconvert(TerminalSource)
            /\ pointer' = c
            /\ card' = [card EXCEPT ![c] =
                 NewCard(TRUE, IF Linked = {} THEN 0 ELSE TerminalSource,
                         "first", p, "automatic")]
    /\ UNCHANGED <<copies, events, req, marks, lost, effects>>

-----------------------------------------------------------------------------
(* Deals that move.                                                        *)

\* resolveMoveSortOrder: whatever comes behind the card is numbered anew.
Behind(m) ==
    {c \in Id \ {m.id} : /\ Live(c) /\ card[c].pipe = card[m.id].pipe
                         /\ card[c].stage = m.stage}

\* The card is written, and those that it pushes on get a new version too.
Placed(m, row, pushed) ==
    [c \in Id |-> IF c = m.id THEN Bump(row)
                  ELSE IF c \in pushed THEN Bump(card[c]) ELSE card[c]]

\* moveStageWithinTransaction; "override" is a person's manualStageOverride,
\* which no policy holds back.  A linked card a person moves becomes manual.
MoveStage(r, m) ==
    LET c == card[m.id]
        flips == m.actor # "auto" /\ (c.linked \/ m.actor = "override")
        row == [c EXCEPT !.stage = m.stage, !.status = Status(m.stage),
                         !.mode = IF flips THEN "manual" ELSE @] IN
    /\ Locked(r, m, "move")
    /\ m.stage # c.stage
    /\ m.actor = "auto" => c.mode # "manual" /\ Status(m.stage) = "open"
    /\ m.actor # "override" => c.status = "open"
    /\ \E pushed \in SUBSET (IF m.place THEN Behind(m) ELSE {}) :
         Commit(r, m, Placed(m, row, pushed), pointer,
                {"stage"}
                  \cup (IF flips /\ c.mode # "manual" THEN {"mode"} ELSE {})
                  \cup (IF row.status # c.status THEN {"status"} ELSE {}))
    /\ marks' = marks \cup (IF c.status # "open" /\ row.status = "open"
                               THEN {"reopened"} ELSE {})
    /\ UNCHANGED lost

\* The card is on that stage already: nothing to do ...
MoveNowhere(r, m) ==
    /\ Locked(r, m, "move")
    /\ m.stage = card[m.id].stage /\ ~m.place
    /\ req' = [req EXCEPT ![r] = Resting]
    /\ UNCHANGED <<card, pointer, copies, events, commands, marks, lost,
                   effects>>

\* ... unless it is given a place, even the one it has.
Reorder(r, m) ==
    /\ Locked(r, m, "move")
    /\ m.stage = card[m.id].stage /\ m.place
    /\ \E pushed \in SUBSET Behind(m) :
         Commit(r, m, Placed(m, card[m.id], pushed), pointer, {"updated"})
    /\ UNCHANGED <<marks, lost>>

MayClose(c, status) == card[c].status = "open" \/ card[c].status = status

\* changeStatusWithinTransaction: the stage follows the status.
ChangeStatus(r, m) ==
    LET c == card[m.id]
        status == Status(m.stage)
        stage == IF status = "open" THEN c.stage ELSE m.stage IN
    /\ Locked(r, m, "status") /\ MayClose(m.id, status)
    /\ Commit(r, m, [card EXCEPT ![m.id] =
                     Bump([c EXCEPT !.stage = stage, !.status = status])],
              pointer,
              (IF stage # c.stage THEN {"stage"} ELSE {})
                \cup (IF status # c.status THEN {"status"} ELSE {}))
    /\ UNCHANGED <<marks, lost>>

TransferPipeline(r, m) ==
    /\ Locked(r, m, "transfer") /\ Open(m.id)
    /\ m.pipe # card[m.id].pipe /\ Status(m.stage) = "open"
    /\ Commit(r, m, [card EXCEPT ![m.id] =
                     Bump([card[m.id] EXCEPT !.pipe = m.pipe,
                                                   !.stage = m.stage])],
              pointer, {"transfer"})
    /\ UNCHANGED <<marks, lost>>

SetAutonomyMode(r, m) ==
    /\ Locked(r, m, "autonomy") /\ m.mode # card[m.id].mode
    /\ Commit(r, m, [card EXCEPT ![m.id] =
                     Bump([card[m.id] EXCEPT !.mode = m.mode])],
              pointer, {"mode"})
    /\ UNCHANGED <<marks, lost>>

DistributeOwner(r, m) ==
    /\ Locked(r, m, "distribute") /\ Open(m.id)
    /\ card[m.id].owner = "nobody"
    /\ Commit(r, m, [card EXCEPT ![m.id] =
                     Bump([card[m.id] EXCEPT !.owner = "somebody",
                                                   !.ownerBy = "command"])],
              pointer, {"owner"})
    /\ UNCHANGED <<marks, lost>>

-----------------------------------------------------------------------------
(* Deals that are written back as they were read.                          *)

\* Every mutable field of the card read goes into the row; the owner stands
\* for the fields this patch does not name.
PatchCard(r, m) ==
    LET read == req[r].snap IN
    /\ Locked(r, m, "patch")
    /\ Commit(r, m, [card EXCEPT ![m.id] =
                     Bump([@ EXCEPT !.owner = read.owner])],
              pointer, {"updated"})
    /\ lost' = IF card[m.id].owner # read.owner
                 THEN lost \cup {[versioned |-> m.versioned,
                                  by |-> card[m.id].ownerBy]}
                 ELSE lost
    /\ UNCHANGED marks

DeleteCard(r, m) ==
    /\ Locked(r, m, "delete")
    /\ Commit(r, m, [card EXCEPT ![m.id] = Bump([@ EXCEPT !.row = "deleted"])],
              pointer, {"updated"})
    /\ UNCHANGED <<marks, lost>>

\* projectOpportunity: every deal of the conversation, no lock, no version.
ProjectOwnership ==
    /\ commands < MaxCommands /\ commands' = commands + 1
    /\ \E c \in Linked : card[c].owner = "nobody"
    /\ card' = [c \in Id |-> IF card[c].linked
                   THEN [card[c] EXCEPT !.owner = "somebody",
                                        !.ownerBy = "projection"]
                   ELSE card[c]]
    /\ UNCHANGED <<pointer, copies, events, req, marks, lost, effects>>

\* sendTextForActor, ingest, ingestEcho and the inbox's screens read the
\* conversation, without a lock ...
CopyConversation ==
    /\ Cardinality(copies \cup {pointer}) <= MaxCopies
    /\ copies' = copies \cup {pointer}
    /\ UNCHANGED <<card, pointer, events, req, commands, marks, lost, effects>>

\* ... and save it later, with the pointer as it was read, or as it is if the
\* save did not find it different.
SaveConversation(read) ==
    /\ read \in copies /\ copies' = copies \ {read}
    /\ pointer' \in {read, pointer}
    /\ marks' = marks \cup (IF pointer' # pointer THEN {"rewound"} ELSE {})
    /\ UNCHANGED <<card, events, req, commands, lost, effects>>

-----------------------------------------------------------------------------

Transaction(r, m) ==
    \/ Create(r, m) \/ Copy(r, m) \/ Reconvert(r, m) \/ MoveStage(r, m)
    \/ MoveNowhere(r, m) \/ Reorder(r, m) \/ ChangeStatus(r, m)
    \/ TransferPipeline(r, m) \/ SetAutonomyMode(r, m) \/ DistributeOwner(r, m)
    \/ PatchCard(r, m) \/ DeleteCard(r, m)

LifecycleNext ==
    \/ \E r \in Request :
         \/ \E m \in Sent :
              Read(r, m) \/ Begin(r, m) \/ Transaction(r, m)
         \/ Refuse(r)
    \/ EnsureOpportunity \/ ProjectOwnership
    \/ CopyConversation \/ \E read \in copies : SaveConversation(read)

LifecycleSpec == LifecycleInit /\ [][LifecycleNext]_lifecycleVars

-----------------------------------------------------------------------------
(***************************************************************************)
(* The conversation's pointer names its open deal, through creations,      *)
(* reconversions, deletions and the agent's ensure_opportunity, until a    *)
(* person reopens a closed deal or a save of the conversation as it was    *)
(* read puts an older pointer back (applyCrm writes through the pointer).  *)
(***************************************************************************)
OpenIsPrimary == \A c \in Linked : Open(c) => pointer = c \/ marks # {}

(***************************************************************************)
(* Sales cycles follow one another in one line: a deal of the conversation *)
(* is continued by one other deal at most, whatever requests race, until   *)
(* one of the two happens.                                                 *)
(***************************************************************************)
OneLineOfCycles ==
    \A c, d \in {x \in Id : card[x].linked} :
        card[c].source # 0 /\ card[c].source = card[d].source
          => c = d \/ marks # {}

(***************************************************************************)
(* A key that a client sends twice changes a deal's stage, status, owner,  *)
(* mode or pipeline, patches it or makes one, once, although both requests *)
(* may look for the first run before it commits.  What a second run may    *)
(* write again is a card's place, its version and its lost reason.         *)
(***************************************************************************)
KeyActsOnce == \A k \in Key : effects[k] <= 1

(***************************************************************************)
(* A patch that carries the version its client saw never puts back a field *)
(* that another command has written since the patch read the card.         *)
(***************************************************************************)
VersionedPatchKeeps == [versioned |-> TRUE, by |-> "command"] \notin lost
=============================================================================
