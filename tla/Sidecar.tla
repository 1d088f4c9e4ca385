-------------------------------- MODULE Sidecar --------------------------------
(***************************************************************************)
(* The stores beside the event log: saved reports and their boards         *)
(* (insights), cohorts, goals, shares, deploys, acted, surveys, defined,   *)
(* exportlink, and the keys of settings.  Each is one JSON file, read      *)
(* whole at Open and written whole, to a temporary file that is renamed,   *)
(* by every call that changes it, under one mutex.                         *)
(*                                                                         *)
(* `smolanalytics mcp` is a second process that opens the files of a       *)
(* running server.  The stores do not interact: a behaviour is one of one  *)
(* of them.                                                                *)
(***************************************************************************)
EXTENDS Integers, FiniteSets, Functions

CONSTANTS
    Server, Editor, \* the server, and the process an editor started
    Keys,           \* ids (or the names, fingerprints, commits that identify)
    Boards,         \* ids of boards, Default among them
    Default,
    Names,          \* names of boards, DefaultName among them
    DefaultName,
    Texts,          \* what a survey asks
    Unsaid,         \* no call that returned has said what is there
    Gone,           \* it said that nothing is
    Down,           \* the process is not running, or Open failed
    Torn            \* a file that does not parse

ASSUME SidecarAssumption ==
    /\ Server # Editor /\ Default \in Boards /\ DefaultName \in Names
    /\ Keys # {} /\ IsFiniteSet(Keys) /\ IsFiniteSet(Boards)

\* What a store holds: the boards of reports by id, and its things by key.
Items == Boards \cup Keys \cup {Unsaid} \cup [text : Texts, on : BOOLEAN]

Contents ==
    [boards : UNION {[bs -> Names] : bs \in SUBSET Boards},
     items  : UNION {[ks -> Items] : ks \in SUBSET Keys}]

ASSUME NilAssumption == {Down, Torn} \cap Contents = {}

Processes == {Server, Editor}

Stores == {"insights", "cohorts", "surveys", "keys", "goals", "shares", "deploys", "acted",
           "links", "defined"}

\* These undo the change in memory when the write fails; the others keep it.
RollsBack == {"insights", "cohorts", "surveys", "keys"}

\* What runMCP opens.
Shared == Stores \ {"links", "defined"}

VARIABLES
    store,      \* which store
    file,       \* what its file holds: [boards, items], or Torn
    mem,        \* what each process holds, or Down
    minted,     \* random ids given out
    editing,    \* a SetActive between its Get and its Save
    \* bookkeeping
    told,       \* what the last call that returned said of each key
    unsaved,    \* keys on which a failed write left a process ahead of the file
    stale,      \* keys others have written since a process last had the file
    lost        \* keys whose last word was overwritten, or left unsaved by who stopped

ghosts == <<told, unsaved, stale, lost>>
vars == <<store, file, mem, minted, editing, ghosts>>

Nothing == [id \in {} |-> Gone]

One(k, item) == [id \in {k} |-> item]

\* A function with another's words put over its own.
Over(new, old) ==
    [id \in DOMAIN new \cup DOMAIN old |-> IF id \in DOMAIN new THEN new[id] ELSE old[id]]

At(content, k) == IF k \in DOMAIN content.items THEN content.items[k] ELSE Gone

Up(p) == mem[p] # Down

Known(p) == DOMAIN mem[p].items

With(p, k, item) == [mem[p] EXCEPT !.items = Over(One(k, item), @)]

Less(p, ks) == [mem[p] EXCEPT !.items = RestrictDomain(@, LAMBDA k : k \notin ks)]

-----------------------------------------------------------------------------
\* persist, for a change of the keys ks: the content c is in the file.
Saved(p, c, ks, says) ==
    /\ mem' = [mem EXCEPT ![p] = c]
    /\ file' = c
    /\ told' = Over(says, told)
    /\ unsaved' = [unsaved EXCEPT ![p] = {}]
    /\ lost' = (lost \cup stale[p]) \ ks
    /\ stale' = [q \in Processes |-> IF q = p THEN {} ELSE stale[q] \cup ks \cup stale[p] \cup unsaved[p]]

\* Mutant: a failed write is not undone.
FailsUndone(p, c, ks, says) ==
    /\ mem' = [mem EXCEPT ![p] = c]
    /\ UNCHANGED <<file, ghosts>>

\* The write fails and the call returns the error, which the burn of a link ignores.
Fails(p, c, ks, says) ==
    IF store \in RollsBack THEN UNCHANGED <<mem, file, ghosts>>
    ELSE /\ mem' = [mem EXCEPT ![p] = c]
         /\ told' = Over([k \in ks |-> IF store = "links" /\ says[k] = Gone THEN Gone ELSE Unsaid], told)
         /\ unsaved' = [unsaved EXCEPT ![p] = @ \cup ks]
         /\ UNCHANGED <<file, stale, lost>>

\* The process ends in the middle of it.  The definitions are written in place.
Ends(p, c, ks) ==
    /\ \/ file' = c /\ lost' = lost \cup stale[p] \cup unsaved[p]
       \/ store = "defined" /\ file' = Torn /\ lost' = Keys
    /\ mem' = [mem EXCEPT ![p] = Down]
    /\ told' = Over([k \in ks |-> Unsaid], told)
    /\ unsaved' = [unsaved EXCEPT ![p] = {}]
    /\ stale' = [q \in Processes |-> IF q = p THEN {} ELSE stale[q] \cup ks \cup stale[p] \cup unsaved[p]]

Change(p, c, ks, says) == Saved(p, c, ks, says) \/ Fails(p, c, ks, says) \/ Ends(p, c, ks)

Put(p, k, item) == Change(p, With(p, k, item), {k}, One(k, item))

\* Nothing to remove: found is FALSE, and nothing is written.
Remove(p, k) == k \in Known(p) /\ Change(p, Less(p, {k}), {k}, One(k, Gone))

EditEndsWith(p) ==
    editing' = IF editing # Unsaid /\ editing.by = p /\ mem'[p] = Down THEN Unsaid ELSE editing

Mint(k) == k \notin minted /\ minted' = minted \cup {k}

-----------------------------------------------------------------------------
\* Reports and boards (insights).

SaveInsight(p, k, board) ==
    /\ board \in DOMAIN mem[p].boards
    /\ Mint(k)
    /\ Put(p, k, board)

MoveInsight(p, k, board) ==
    /\ board \in DOMAIN mem[p].boards
    /\ k \in Known(p) /\ mem[p].items[k] # board
    /\ Put(p, k, board)
    /\ UNCHANGED minted

DeleteInsight(p, k) == Remove(p, k) /\ UNCHANGED minted

NameTaken(p, name, except) == \E b \in DOMAIN mem[p].boards \ {except} : mem[p].boards[b] = name

WithBoard(p, b, name) == [mem[p] EXCEPT !.boards = Over(One(b, name), @)]

CreateBoard(p, b, name) ==
    /\ ~NameTaken(p, name, b)
    /\ Mint(b)
    /\ Change(p, WithBoard(p, b, name), {}, Nothing)

UpdateBoard(p, b, name) ==
    /\ b \in DOMAIN mem[p].boards /\ ~NameTaken(p, name, b)
    /\ Change(p, WithBoard(p, b, name), {}, Nothing)
    /\ UNCHANGED minted

\* Mutant: a board goes with its reports on it.
DeleteBoardFull(p, b) ==
    /\ b \in DOMAIN mem[p].boards \ {Default}
    /\ Change(p, [mem[p] EXCEPT !.boards = RestrictDomain(@, LAMBDA a : a # b)], {}, Nothing)
    /\ UNCHANGED minted

DeleteBoard(p, b) ==
    /\ b \in DOMAIN mem[p].boards \ {Default}
    /\ \A k \in Known(p) : mem[p].items[k] # b
    /\ Change(p, [mem[p] EXCEPT !.boards = RestrictDomain(@, LAMBDA a : a # b)], {}, Nothing)
    /\ UNCHANGED minted

InsightCalls(p) ==
    /\ store = "insights"
    /\ \/ \E k \in Keys, b \in Boards : SaveInsight(p, k, b) \/ MoveInsight(p, k, b)
       \/ \E k \in Keys : DeleteInsight(p, k)
       \/ \E b \in Boards, name \in Names : CreateBoard(p, b, name) \/ UpdateBoard(p, b, name)
       \/ \E b \in Boards : DeleteBoard(p, b)
    /\ UNCHANGED editing

-----------------------------------------------------------------------------
\* Surveys.

SaveSurvey(p, k, text, on) ==
    /\ IF k \in Known(p) THEN UNCHANGED minted ELSE Mint(k)
    /\ Put(p, k, [text |-> text, on |-> on])
    /\ EditEndsWith(p)

\* SetActive reads the survey, and writes it back whole if it is still there.
ReadSurvey(p, k, on) ==
    /\ editing = Unsaid
    /\ k \in Known(p)
    /\ editing' = [by |-> p, key |-> k, item |-> [mem[p].items[k] EXCEPT !.on = on]]
    /\ UNCHANGED <<file, mem, minted, ghosts>>

SetActive(p) ==
    /\ editing # Unsaid /\ editing.by = p
    /\ IF editing.key \in Known(p) THEN Put(p, editing.key, editing.item)
       ELSE UNCHANGED <<file, mem, ghosts>>
    /\ editing' = Unsaid
    /\ UNCHANGED minted

DeleteSurvey(p, k) == Remove(p, k) /\ EditEndsWith(p) /\ UNCHANGED minted

SurveyCalls(p) ==
    /\ store = "surveys"
    /\ \/ \E k \in Keys, text \in Texts, on \in BOOLEAN : SaveSurvey(p, k, text, on)
       \/ \E k \in Keys, on \in BOOLEAN : ReadSurvey(p, k, on)
       \/ SetActive(p)
       \/ \E k \in Keys : DeleteSurvey(p, k)

-----------------------------------------------------------------------------
\* The others; what they hold under a key is one thing.

SaveCohort(p, k) == store = "cohorts" /\ Mint(k) /\ Put(p, k, k)
AddKey(p, k)     == store = "keys" /\ Mint(k) /\ Put(p, k, k)
CreateShare(p, k) == store = "shares" /\ Mint(k) /\ Put(p, k, k)

\* Dead links are dropped when one is made.
CreateLink(p, k) ==
    /\ store = "links"
    /\ Mint(k)
    /\ \E dead \in SUBSET Known(p) :
           Change(p, [Less(p, dead) EXCEPT !.items = Over(One(k, k), @)], {k} \cup dead,
                  Over(One(k, k), [d \in dead |-> Gone]))

\* A goal that is there is refused; a commit or a name that is there is replaced.
SaveGoal(p, k)    == store = "goals" /\ k \notin Known(p) /\ Put(p, k, k) /\ UNCHANGED minted
Record(p, k)      == store = "deploys" /\ Put(p, k, k) /\ UNCHANGED minted
SaveDefined(p, k) == store = "defined" /\ Put(p, k, k) /\ UNCHANGED minted

\* Mark: what is marked stays as it was, with nothing written.
Mark(p, k) ==
    /\ store = "acted"
    /\ IF k \in Known(p) THEN told' = [told EXCEPT ![k] = k] /\ UNCHANGED <<file, mem, unsaved, stale, lost>>
       ELSE Put(p, k, k)
    /\ UNCHANGED minted

DeleteCohort(p, k)  == store = "cohorts" /\ Remove(p, k) /\ UNCHANGED minted
RevokeKey(p, k)     == store = "keys" /\ Remove(p, k) /\ UNCHANGED minted
RevokeShare(p, k)   == store = "shares" /\ Remove(p, k) /\ UNCHANGED minted
DeleteGoal(p, k)    == store = "goals" /\ Remove(p, k) /\ UNCHANGED minted
DeleteDeploy(p, k)  == store = "deploys" /\ Remove(p, k) /\ UNCHANGED minted
DeleteDefined(p, k) == store = "defined" /\ Remove(p, k) /\ UNCHANGED minted
Redeem(p, k)        == store = "links" /\ Remove(p, k) /\ UNCHANGED minted

PlainCalls(p) ==
    /\ \E k \in Keys :
           \/ SaveCohort(p, k) \/ AddKey(p, k) \/ CreateShare(p, k) \/ CreateLink(p, k)
           \/ SaveGoal(p, k) \/ Record(p, k) \/ SaveDefined(p, k) \/ Mark(p, k)
           \/ DeleteCohort(p, k) \/ RevokeKey(p, k) \/ RevokeShare(p, k) \/ DeleteGoal(p, k)
           \/ DeleteDeploy(p, k) \/ DeleteDefined(p, k) \/ Redeem(p, k)
    /\ UNCHANGED editing

-----------------------------------------------------------------------------
\* adoptOrphans: the default board is there, and a report without a board is on it.
Adopted(c) ==
    LET boards == Over(c.boards, One(Default, DefaultName))
    IN IF store # "insights" THEN c
       ELSE [boards |-> boards,
             items  |-> [k \in DOMAIN c.items |->
                             IF c.items[k] \in DOMAIN boards THEN c.items[k] ELSE Default]]

\* Open: a file that does not parse leaves the process without the store.
Open(p) ==
    /\ mem[p] = Down /\ file # Torn
    /\ p = Editor => store \in Shared
    /\ mem' = [mem EXCEPT ![p] = Adopted(file)]
    /\ stale' = [stale EXCEPT ![p] = {}]
    /\ UNCHANGED <<store, file, minted, editing, told, unsaved, lost>>

Stop(p) ==
    /\ Up(p)
    /\ mem' = [mem EXCEPT ![p] = Down]
    /\ EditEndsWith(p)
    /\ lost' = lost \cup unsaved[p]
    /\ unsaved' = [unsaved EXCEPT ![p] = {}]
    /\ stale' = [stale EXCEPT ![p] = {}]
    /\ UNCHANGED <<store, file, minted, told>>

\* A file from before there were boards holds reports that name none.
Init ==
    /\ store \in Stores
    /\ file \in {[boards |-> Nothing, items |-> Nothing]}
          \cup {[boards |-> Nothing, items |-> [k \in ks |-> Unsaid]] :
                    ks \in IF store = "insights" THEN SUBSET Keys ELSE {}}
    /\ mem = [p \in Processes |-> Down]
    /\ minted = DOMAIN file.items \cup {Default}
    /\ editing = Unsaid
    /\ told = [k \in Keys |-> Unsaid]
    /\ unsaved = [p \in Processes |-> {}]
    /\ stale = [p \in Processes |-> {}]
    /\ lost = {}

Calls(p) ==
    /\ Up(p)
    /\ InsightCalls(p) \/ SurveyCalls(p) \/ PlainCalls(p)
    /\ UNCHANGED store

Next == \E p \in Processes : Open(p) \/ Stop(p) \/ Calls(p)

Spec == Init /\ [][Next]_vars
-----------------------------------------------------------------------------
\* What the last call that returned said of a key is what the file holds, across
\* failed writes, crashes in the middle of a write, and restarts: the exceptions are
\* a store that does not undo a failed write, until its next write succeeds or for
\* good if the process stops first, and a key another process has written since
\* this one had the file (insights.go:254, survey/store.go:169, settings.go:223).
ToldTrue ==
    \A k \in Keys \ (lost \cup unsaved[Server] \cup unsaved[Editor]) :
        told[k] # Unsaid /\ file # Torn => At(file, k) = told[k]

\* Every report is on a board that exists, no two boards have one name, and the
\* default board is there, in each process and in what the next Open makes of the
\* file, though the processes overwrite each other (insights.go:124, boards.go:223).
BoardsHold ==
    store = "insights" =>
        \A c \in {mem[p] : p \in {q \in Processes : Up(q)}} \cup {Adopted(file)} :
            /\ Default \in DOMAIN c.boards
            /\ Range(c.items) \subseteq DOMAIN c.boards
            /\ IsInjective(c.boards)
=============================================================================
