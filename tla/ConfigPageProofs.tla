-------------------------- MODULE ConfigPageProofs ---------------------------
(***************************************************************************)
(* What a board has confirmed as saved is kept, for every set of fields    *)
(* and values and however often the user, the other writers and the power  *)
(* interfere.  Every step of the page is a step of the store or leaves it  *)
(* alone, so that the store's invariant carries over.  SavedIsKept itself  *)
(* is not inductive: it needs what the stages of a save have established   *)
(* about the digests the page has seen, that the page waits only for a     *)
(* save with the digest of its own save stage, and what a save under way   *)
(* on either core is going to write.                                       *)
(***************************************************************************)
EXTENDS ConfigPage, WellFoundedInduction, TLAPS

(***************************************************************************)
(* First the store.  The page buffer has one user at a time, for every set *)
(* of boards, fields and values (StoreAssumption is all that is used).     *)
(* BufferHasOneUser is not inductive: it needs that a save and the updater *)
(* exclude each other for as long as a save lasts, and that no two saves   *)
(* overlap.                                                                *)
(***************************************************************************)
Saving0(b) == core0[b] \in {"filled", "written"}

(* A save on either core excludes the other core's and a transfer. *)
SavesExclude(b) ==
  /\ Saving0(b) => core1[b] # "saving" /\ ~Upgrading(b)
  /\ core1[b] = "saving" => ~Upgrading(b)

BufferOK(b) ==
  /\ Saving0(b) => buffer[b] = Current(expected[b])
  /\ core1[b] = "saving" => buffer[b] \in Image
  /\ pending[b] => buffer[b] = Firmware /\ Upgrading(b)

BoardOK(b) == SavesExclude(b) /\ BufferOK(b)

StoreInv == StoreTypeOK /\ \A b \in Board : BoardOK(b)

-----------------------------------------------------------------------------
(* What load_config computes are settings, whatever it has read.           *)
LEMMA LoadedIsConfig ==
  ASSUME NEW i \in Image \cup {Blank}
  PROVE  Loaded(i) \in Config
<1>1. Default \in Config /\ Jitter \in Value /\ Mode \in Field
  BY StoreAssumption
<1>2. CASE i = Blank
  BY <1>1, <1>2 DEF Loaded
<1>3. CASE i \in Image
  <2>1. i.val \in Config
    BY <1>3 DEF Image
  <2>2. Migrated(i.val) \in Config
    BY <2>1, <1>1 DEF Migrated, Config
  <2>3. QED
    BY <1>1, <2>1, <2>2 DEF Loaded
<1>4. QED
  BY <1>2, <1>3

(* A copy of settings is an image of the current version. *)
LEMMA CurrentIsImage ==
  ASSUME NEW c \in Config
  PROVE  Current(c) \in Image
  BY DEF Current, Image

(* One setting changes. *)
LEMMA SetIsConfig ==
  ASSUME NEW c \in [Board -> Config], NEW b \in Board, NEW f \in Field, NEW v \in Value
  PROVE  [c EXCEPT ![b][f] = v] \in [Board -> Config]
  BY DEF Config

-----------------------------------------------------------------------------
(* The invariant holds when both boards are off. *)
LEMMA StoreInitial == StoreInit => StoreInv
<1>1. SUFFICES ASSUME StoreInit PROVE StoreInv
  OBVIOUS
<1>2. StoreTypeOK
  BY <1>1, StoreAssumption DEF StoreInit, StoreTypeOK
<1>3. ASSUME NEW b \in Board PROVE BoardOK(b)
  BY <1>1 DEF StoreInit, BoardOK, SavesExclude, BufferOK, Saving0
<1>4. QED
  BY <1>2, <1>3 DEF StoreInv

-----------------------------------------------------------------------------
(* Confirmed requests, on core 0, keep the invariant. *)

(* What a save is about to write are settings. *)
LEMMA WrittenIsImage ==
  ASSUME StoreInv, NEW b \in Board, Saving0(b) \/ core1[b] = "saving"
  PROVE  buffer[b] \in Image
<1>1. expected[b] \in Config
  BY DEF StoreInv, StoreTypeOK
<1>2. BufferOK(b)
  BY DEF StoreInv, BoardOK
<1>3. QED
  BY <1>1, <1>2, CurrentIsImage DEF BufferOK

LEMMA SetKeeps ==
  ASSUME StoreInv, NEW b \in Board, NEW f \in Field, NEW v \in Value, Set(b, f, v)
  PROVE  StoreInv'
<1>1. StoreTypeOK'
  BY SetIsConfig DEF StoreInv, StoreTypeOK, Set
<1>2. ASSUME NEW c \in Board PROVE BoardOK(c)'
  <2>1. BoardOK(c)
    BY DEF StoreInv
  <2>2. QED
    BY <2>1 DEF Set, BoardOK, SavesExclude, BufferOK, Saving0, Upgrading
<1>3. QED
  BY <1>1, <1>2 DEF StoreInv

LEMMA SaveBeginKeeps ==
  ASSUME StoreInv, NEW b \in Board, NEW d \in Config, SaveBegin(b, d)
  PROVE  StoreInv'
<1>1. config[b] = d /\ core0[b] = "none" /\ core1[b] # "saving" /\ upgrade[b] = "no"
  BY DEF SaveBegin, MaySave, Locked, Busy
<1>2. StoreTypeOK'
  <2>1. Current(config[b]) \in Image
    BY <1>1, CurrentIsImage
  <2>2. QED
    BY <2>1 DEF StoreInv, StoreTypeOK, SaveBegin
<1>3. ASSUME NEW c \in Board PROVE BoardOK(c)'
  <2>1. BoardOK(c) /\ StoreTypeOK
    BY DEF StoreInv
  <2>2. CASE c = b
    <3>1. ~pending[b]
      BY <1>1, <2>1, <2>2 DEF BoardOK, BufferOK, Upgrading
    <3>2. QED
      BY <1>1, <2>1, <2>2, <3>1
      DEF StoreTypeOK, SaveBegin, BoardOK, SavesExclude, BufferOK, Saving0, Upgrading
  <2>3. CASE c # b
    BY <2>1, <2>3
    DEF StoreTypeOK, SaveBegin, BoardOK, SavesExclude, BufferOK, Saving0, Upgrading
  <2>4. QED
    BY <2>2, <2>3
<1>4. QED
  BY <1>2, <1>3 DEF StoreInv

LEMMA SaveStepKeeps ==
  ASSUME StoreInv, NEW b \in Board, SaveWrite(b) \/ SaveEnd(b)
  PROVE  StoreInv'
<1>1. StoreTypeOK'
  <2>1. CASE SaveWrite(b)
    <3>1. buffer[b] \in Image
      BY <2>1, WrittenIsImage DEF SaveWrite, Saving0
    <3>2. QED
      BY <2>1, <3>1 DEF StoreInv, StoreTypeOK, SaveWrite
  <2>2. CASE SaveEnd(b)
    BY <2>2 DEF StoreInv, StoreTypeOK, SaveEnd
  <2>3. QED
    BY <2>1, <2>2
<1>2. ASSUME NEW c \in Board PROVE BoardOK(c)'
  <2>1. BoardOK(c) /\ StoreTypeOK
    BY DEF StoreInv
  <2>2. QED
    BY <2>1
    DEF StoreTypeOK, SaveWrite, SaveEnd, BoardOK, SavesExclude, BufferOK, Saving0, Upgrading
<1>3. QED
  BY <1>1, <1>2 DEF StoreInv

-----------------------------------------------------------------------------
(* Core 1 keeps it: older messages and hotkeys, wiping, the updater. *)

LEMMA EditKeeps ==
  ASSUME StoreInv, NEW b \in Board, NEW f \in Field, NEW v \in Value, LocalEdit(b, f, v)
  PROVE  StoreInv'
<1>1. StoreTypeOK'
  BY SetIsConfig DEF StoreInv, StoreTypeOK, LocalEdit
<1>2. ASSUME NEW c \in Board PROVE BoardOK(c)'
  <2>1. BoardOK(c)
    BY DEF StoreInv
  <2>2. QED
    BY <2>1 DEF LocalEdit, BoardOK, SavesExclude, BufferOK, Saving0, Upgrading
<1>3. QED
  BY <1>1, <1>2 DEF StoreInv

LEMMA LegacyBeginKeeps ==
  ASSUME StoreInv, NEW b \in Board, LegacyBegin(b)
  PROVE  StoreInv'
<1>1. core0[b] = "none" /\ core1[b] = "none" /\ ~Upgrading(b)
  BY DEF LegacyBegin, Locked
<1>2. Current(config[b]) \in Image
  BY CurrentIsImage DEF StoreInv, StoreTypeOK
<1>3. StoreTypeOK'
  BY <1>2 DEF StoreInv, StoreTypeOK, LegacyBegin
<1>4. ASSUME NEW c \in Board PROVE BoardOK(c)'
  <2>1. BoardOK(c) /\ StoreTypeOK
    BY DEF StoreInv
  <2>2. QED
    BY <1>1, <1>2, <2>1
    DEF StoreTypeOK, LegacyBegin, BoardOK, SavesExclude, BufferOK, Saving0, Upgrading
<1>5. QED
  BY <1>3, <1>4 DEF StoreInv

LEMMA LegacyWriteKeeps ==
  ASSUME StoreInv, NEW b \in Board, LegacyWrite(b)
  PROVE  StoreInv'
<1>1. buffer[b] \in Image
  BY WrittenIsImage DEF LegacyWrite
<1>2. StoreTypeOK'
  BY <1>1 DEF StoreInv, StoreTypeOK, LegacyWrite
<1>3. ASSUME NEW c \in Board PROVE BoardOK(c)'
  <2>1. BoardOK(c) /\ StoreTypeOK
    BY DEF StoreInv
  <2>2. QED
    BY <2>1
    DEF StoreTypeOK, LegacyWrite, BoardOK, SavesExclude, BufferOK, Saving0, Upgrading
<1>4. QED
  BY <1>2, <1>3 DEF StoreInv

LEMMA LoadKeeps ==
  ASSUME StoreInv, NEW b \in Board, Wipe(b) \/ LoadRead(b) \/ LoadPublish(b)
  PROVE  StoreInv'
<1>1. StoreTypeOK'
  <2>1. CASE Wipe(b)
    BY <2>1 DEF StoreInv, StoreTypeOK, Wipe
  <2>2. CASE LoadRead(b)
    BY <2>2 DEF StoreInv, StoreTypeOK, LoadRead
  <2>3. CASE LoadPublish(b)
    <3>1. Loaded(loading[b]) \in Config
      BY LoadedIsConfig DEF StoreInv, StoreTypeOK
    <3>2. QED
      BY <2>3, <3>1 DEF StoreInv, StoreTypeOK, LoadPublish
  <2>4. QED
    BY <2>1, <2>2, <2>3
<1>2. ASSUME NEW c \in Board PROVE BoardOK(c)'
  <2>1. BoardOK(c) /\ StoreTypeOK
    BY DEF StoreInv
  <2>2. QED
    BY <2>1 DEF StoreTypeOK, Wipe, LoadRead, LoadPublish, BoardOK, SavesExclude, BufferOK,
                Saving0, Upgrading
<1>3. QED
  BY <1>1, <1>2 DEF StoreInv

LEMMA PullKeeps ==
  ASSUME StoreInv, NEW b \in Board,
         PullBegin(b) \/ PullFill(b) \/ PullCommit(b) \/ PullEnd(b)
  PROVE  StoreInv'
<1>1. core0[b] = "none" /\ core1[b] = "none"
  BY DEF PullBegin, PullFill, PullCommit, PullEnd, Locked
<1>2. StoreTypeOK'
  BY DEF StoreInv, StoreTypeOK, PullBegin, PullFill, PullCommit, PullEnd
<1>3. ASSUME NEW c \in Board PROVE BoardOK(c)'
  <2>1. BoardOK(c) /\ StoreTypeOK
    BY DEF StoreInv
  <2>2. QED
    BY <1>1, <2>1 DEF StoreTypeOK, PullBegin, PullFill, PullCommit, PullEnd, BoardOK,
                      SavesExclude, BufferOK, Saving0, Upgrading
<1>4. QED
  BY <1>2, <1>3 DEF StoreInv

LEMMA Core1Keeps ==
  ASSUME StoreInv, NEW b \in Board, Core1(b)
  PROVE  StoreInv'
  BY EditKeeps, LegacyBeginKeeps, LegacyWriteKeeps, LoadKeeps, PullKeeps DEF Core1

-----------------------------------------------------------------------------
(* Starting again keeps it, with whatever a power cut left in flash. *)
LEMMA RestartKeeps ==
  ASSUME StoreInv, NEW b \in Board, NEW left \in Image \cup {Blank}, Restart(b, left)
  PROVE  StoreInv'
<1>1. Loaded(left) \in Config
  BY LoadedIsConfig
<1>2. Current(Loaded(left)) \in Image
  BY <1>1, CurrentIsImage
<1>3. StoreTypeOK'
  BY <1>1, <1>2 DEF StoreInv, StoreTypeOK, Restart
<1>4. ASSUME NEW c \in Board PROVE BoardOK(c)'
  <2>1. BoardOK(c) /\ StoreTypeOK
    BY DEF StoreInv
  <2>2. QED
    BY <2>1 DEF StoreTypeOK, Restart, BoardOK, SavesExclude, BufferOK, Saving0, Upgrading
<1>5. QED
  BY <1>3, <1>4 DEF StoreInv

(* Every step of the store keeps the invariant. *)
LEMMA StoreStep == StoreInv /\ [StoreNext]_store => StoreInv'
<1>1. SUFFICES ASSUME StoreInv, [StoreNext]_store PROVE StoreInv'
  OBVIOUS
<1>2. CASE StoreNext
  <2>1. PICK b \in Board :
           \/ \E f \in Field, v \in Value : Set(b, f, v)
           \/ \E d \in Config : SaveBegin(b, d)
           \/ SaveWrite(b) \/ SaveEnd(b) \/ Core1(b)
           \/ \E left \in Image \cup {Blank} : Restart(b, left)
    BY <1>2 DEF StoreNext
  <2>2. QED
    BY <1>1, <2>1, SetKeeps, SaveBeginKeeps, SaveStepKeeps, Core1Keeps, RestartKeeps
<1>3. CASE UNCHANGED store
  BY <1>1, <1>3 DEF store, StoreInv, StoreTypeOK, BoardOK, SavesExclude, BufferOK, Saving0,
                    Upgrading
<1>4. QED
  BY <1>1, <1>2, <1>3

-----------------------------------------------------------------------------
(* The invariant of the store: types, what the buffer holds for its user,  *)
(* and that saves and transfers exclude each other on both cores.          *)
THEOREM StoreInvariance == StoreSpec => []StoreInv
  BY StoreInitial, StoreStep, PTL DEF StoreSpec

(* Whatever is loaded, migrated, edited, wiped or left over by a power     *)
(* cut, the settings in RAM and in flash are settings.                     *)
THEOREM StoreTypeCorrect == StoreSpec => []StoreTypeOK
<1>1. StoreInv => StoreTypeOK
  BY DEF StoreInv
<1>2. QED
  BY <1>1, StoreInvariance, PTL

(* A save never writes a firmware page over the settings, and the updater  *)
(* never writes settings into the firmware slot, for every interleaving of *)
(* the two cores.                                                          *)
THEOREM BufferIsExclusive == StoreSpec => []BufferHasOneUser
<1>1. StoreInv => BufferHasOneUser
  BY DEF StoreInv, BoardOK, BufferOK, BufferHasOneUser, Saving0
<1>2. QED
  BY <1>1, StoreInvariance, PTL

-----------------------------------------------------------------------------
(* The page, on top of the store. *)

(* A handler of the page. *)
Stage == {"idle", "apply", "query", "check", "save"}

PageRec ==
  [stage : Stage, saving : BOOLEAN, plan : SUBSET Field, todo : SUBSET Field, role : Board,
   good : BOOLEAN, goal : Config \cup {None}, applied : [Board -> Config \cup {None}],
   seen : [Board -> Config \cup {None}]]

(* The digest that b has answered shows the edit of field f. *)
Agreed(p, b, f) == p.seen[b][f] = p.goal[f]

(* What the stages before have left to do and established. *)
Todo(p) ==
  /\ p.todo \subseteq p.plan
  /\ p.stage = "idle" => p.plan = {} /\ ~p.saving
  /\ p.stage # "idle" => p.goal \in Config
  /\ p.stage \in {"apply", "check"} => p.todo # {}
  /\ p.stage = "query" => p.todo = p.plan
  /\ p.stage \in {"query", "check", "save"} => p.saving

Checked(p) ==
  /\ p.stage = "check" => \A b \in Board, f \in p.plan \ p.todo : Agreed(p, b, f)
  /\ p.stage = "check" /\ p.role = 1 /\ p.good => Agreed(p, 0, Min(p.todo))
  /\ p.stage = "save" => \A b \in Board, f \in p.plan : Agreed(p, b, f)

Handler(p) == p \in PageRec /\ Todo(p) /\ Checked(p)

(* The form and its edits, against the handler that runs. *)
FormOK ==
  /\ want \in Config /\ base \in Config
  /\ unconf \subseteq Field /\ tried \subseteq unconf
  /\ page.plan \subseteq unconf
  /\ page.saving => tried \subseteq page.plan

(* The page waits for a save only in its save stage, and that save was     *)
(* given the digest the page has seen.                                     *)
HeedOK(b) ==
  heeded[b] => /\ page.stage = "save" /\ page.role = b
               /\ Saving0(b) /\ expected[b] = page.seen[b]

LateOK(b) ==
  late[b] # None => Handler(late[b]) /\ late[b].stage \in {"apply", "save"}

(* A settled value is in RAM, in flash, and in what is being written.      *)
Kept(b, f, v) ==
  /\ flash[b] # Blank /\ ~flash[b].old /\ flash[b].val[f] = v
  /\ config[b][f] = v
  /\ Saving0(b) => expected[b][f] = v
  /\ core1[b] = "saving" => ~buffer[b].old /\ buffer[b].val[f] = v

SureOK(b) == \A f \in Field : sure[b][f] # None => Kept(b, f, sure[b][f])

Flags ==
  /\ heeded \in [Board -> BOOLEAN]
  /\ late \in [Board -> PageRec \cup {None}]
  /\ sure \in [Board -> [Field -> Value \cup {None}]]

PageIInv ==
  /\ StoreInv
  /\ Flags
  /\ Handler(page)
  /\ FormOK
  /\ \A b \in Board : HeedOK(b) /\ LateOK(b) /\ SureOK(b)

-----------------------------------------------------------------------------
(* The least field of a plan is a field of it. *)
LEMMA LeastField ==
  ASSUME NEW S \in SUBSET Field, S # {}
  PROVE  Min(S) \in S
<1> DEFINE Less == {ss \in Nat \X Nat : ss[1] < ss[2]}
<1>1. S \subseteq Nat
  BY PageAssumption
<1>2. IsWellFoundedOn(Less, Nat)
  BY NatLessThanWellFounded DEF OpToRel
<1>3. ASSUME NEW x \in Nat, NEW y \in Nat, <<y, x>> \notin Less
      PROVE  x <= y
  <2>1. <<y, x>> \in Nat \X Nat
    OBVIOUS
  <2>2. ~(y < x)
    BY <1>3, <2>1
  <2>3. QED
    BY <2>2
<1> HIDE DEF Less
<1>4. PICK x \in S : \A y \in S : <<y, x>> \notin Less
  BY <1>1, <1>2, WFMin
<1>5. \A y \in S : x <= y
  BY <1>1, <1>3, <1>4
<1>6. QED
  BY <1>5 DEF Min

-----------------------------------------------------------------------------
(* The updates of a handler, by name. *)

(* The handler turns to role r, at stage s with fields t to do. *)
Moved(p, s, t, r, g) ==
  [stage |-> s, saving |-> p.saving, plan |-> p.plan, todo |-> t, role |-> r, good |-> g,
   goal |-> p.goal, applied |-> p.applied, seen |-> p.seen]

(* A handler is the record of its fields. *)
LEMMA HandlerFields ==
  ASSUME NEW p \in PageRec
  PROVE  /\ p.stage \in Stage /\ p.saving \in BOOLEAN /\ p.plan \in SUBSET Field
         /\ p.todo \in SUBSET Field /\ p.role \in Board /\ p.good \in BOOLEAN
         /\ p.goal \in Config \cup {None}
         /\ p.applied \in [Board -> Config \cup {None}]
         /\ p.seen \in [Board -> Config \cup {None}]
  BY DEF PageRec

LEMMA MovedFields ==
  ASSUME NEW p, NEW s, NEW t, NEW r, NEW g
  PROVE  /\ Moved(p, s, t, r, g).stage = s /\ Moved(p, s, t, r, g).todo = t
         /\ Moved(p, s, t, r, g).role = r /\ Moved(p, s, t, r, g).good = g
         /\ Moved(p, s, t, r, g).saving = p.saving /\ Moved(p, s, t, r, g).plan = p.plan
         /\ Moved(p, s, t, r, g).goal = p.goal /\ Moved(p, s, t, r, g).seen = p.seen
         /\ Moved(p, s, t, r, g).applied = p.applied
  BY DEF Moved

LEMMA MovedRec ==
  ASSUME NEW p \in PageRec, NEW s \in Stage, NEW t \in SUBSET Field, NEW r \in Board,
         NEW g \in BOOLEAN
  PROVE  Moved(p, s, t, r, g) \in PageRec
  BY HandlerFields DEF Moved, PageRec

LEMMA RoleMoves ==
  ASSUME NEW p \in PageRec, NEW r
  PROVE  [p EXCEPT !.role = r] = Moved(p, p.stage, p.todo, r, p.good)
  BY DEF Moved, PageRec

LEMMA GoodMoves ==
  ASSUME NEW p, NEW s, NEW t, NEW r, NEW g, NEW g2
  PROVE  [Moved(p, s, t, r, g) EXCEPT !.good = g2] = Moved(p, s, t, r, g2)
  BY DEF Moved

LEMMA StageMoves ==
  ASSUME NEW p, NEW s, NEW t, NEW r, NEW g, NEW s2
  PROVE  [Moved(p, s, t, r, g) EXCEPT !.stage = s2] = Moved(p, s2, t, r, g)
  BY DEF Moved

LEMMA TodoMoves ==
  ASSUME NEW p, NEW s, NEW t, NEW r, NEW g, NEW t2
  PROVE  [Moved(p, s, t, r, g) EXCEPT !.todo = t2] = Moved(p, s, t2, r, g)
  BY DEF Moved

-----------------------------------------------------------------------------
(* What a handler does next. *)

Rest(p) == p.todo \ {Min(p.todo)}

LEMMA AfterFirst ==
  ASSUME NEW p \in PageRec, NEW g, p.role = 0
  PROVE  After(p, g) = Moved(p, p.stage, p.todo, 1, g)
<1>1. [p EXCEPT !.role = 1] = Moved(p, p.stage, p.todo, 1, p.good)
  BY RoleMoves
<1>2. [Moved(p, p.stage, p.todo, 1, p.good) EXCEPT !.good = g]
        = Moved(p, p.stage, p.todo, 1, g)
  BY GoodMoves
<1>3. After(p, g) = [p EXCEPT !.role = 1, !.good = g]
  BY DEF After
<1>4. QED
  BY <1>1, <1>2, <1>3

LEMMA AfterBad ==
  ASSUME NEW p \in PageRec, NEW g, p.role # 0, ~g
  PROVE  After(p, g) = Idle
  BY DEF After

LEMMA AfterSecond ==
  ASSUME NEW p \in PageRec, NEW g, p.role # 0, g
  PROVE  /\ p.stage \in {"apply", "check"} /\ Rest(p) # {}
              => After(p, g) = Moved(p, p.stage, Rest(p), 0, p.good)
         /\ p.stage = "apply" /\ Rest(p) = {} /\ p.saving
              => After(p, g) = Moved(p, "query", p.plan, 0, p.good)
         /\ p.stage = "apply" /\ Rest(p) = {} /\ ~p.saving => After(p, g) = Idle
         /\ p.stage = "query" /\ p.plan = {}
              => After(p, g) = Moved(p, "save", p.todo, 0, p.good)
         /\ p.stage = "query" /\ p.plan # {}
              => After(p, g) = Moved(p, "check", p.todo, 0, p.good)
         /\ p.stage = "check" /\ Rest(p) = {}
              => After(p, g) = Moved(p, "save", {}, 0, p.good)
         /\ p.stage \in {"save", "idle"} => After(p, g) = Idle
<1> DEFINE q == [p EXCEPT !.role = 0]
<1> DEFINE m == Moved(p, p.stage, p.todo, 0, p.good)
<1>1. q = m
  BY RoleMoves
<1>2. After(p, g) =
        CASE p.stage = "apply" /\ Rest(p) # {} -> [q EXCEPT !.todo = Rest(p)]
          [] p.stage = "apply" /\ Rest(p) = {} /\ p.saving -> [q EXCEPT !.stage = "query",
                                                                        !.todo = p.plan]
          [] p.stage = "query" -> [q EXCEPT !.stage = IF p.plan = {} THEN "save" ELSE "check"]
          [] p.stage = "check" /\ Rest(p) # {} -> [q EXCEPT !.todo = Rest(p)]
          [] p.stage = "check" /\ Rest(p) = {} -> [q EXCEPT !.stage = "save", !.todo = {}]
          [] OTHER -> Idle
  BY DEF After, Rest
<1>3. [m EXCEPT !.todo = Rest(p)] = Moved(p, p.stage, Rest(p), 0, p.good)
  BY TodoMoves
<1>4. [m EXCEPT !.stage = "query", !.todo = p.plan] = Moved(p, "query", p.plan, 0, p.good)
  <2>1. [m EXCEPT !.stage = "query"] = Moved(p, "query", p.todo, 0, p.good)
    BY StageMoves
  <2>2. [Moved(p, "query", p.todo, 0, p.good) EXCEPT !.todo = p.plan]
          = Moved(p, "query", p.plan, 0, p.good)
    BY TodoMoves
  <2>3. QED
    BY <2>1, <2>2
<1>5. [m EXCEPT !.stage = IF p.plan = {} THEN "save" ELSE "check"]
        = Moved(p, IF p.plan = {} THEN "save" ELSE "check", p.todo, 0, p.good)
  BY StageMoves
<1>6. [m EXCEPT !.stage = "save", !.todo = {}] = Moved(p, "save", {}, 0, p.good)
  <2>1. [m EXCEPT !.stage = "save"] = Moved(p, "save", p.todo, 0, p.good)
    BY StageMoves
  <2>2. [Moved(p, "save", p.todo, 0, p.good) EXCEPT !.todo = {}]
          = Moved(p, "save", {}, 0, p.good)
    BY TodoMoves
  <2>3. QED
    BY <2>1, <2>2
<1> HIDE DEF q, m
<1>7. CASE p.stage = "apply"
  BY <1>1, <1>2, <1>3, <1>4, <1>7
<1>8. CASE p.stage = "query"
  BY <1>1, <1>2, <1>5, <1>8
<1>9. CASE p.stage = "check"
  BY <1>1, <1>2, <1>3, <1>6, <1>9
<1>10. CASE p.stage \in {"save", "idle"}
  BY <1>2, <1>10
<1>11. QED
  BY <1>7, <1>8, <1>9, <1>10

(* Both boards have answered the save. *)
LEMMA AfterSaved ==
  ASSUME NEW p, NEW g, p.role = 1, p.stage = "save"
  PROVE  After(p, g) = Idle
  BY DEF After

(* The answer to a check shows the edit in the digest. *)
Fresh(p, g) ==
  g /\ p.stage = "check" => Agreed(p, p.role, Min(p.todo)) /\ (p.role = 1 => p.good)

(* A handler never plans more on its way. *)
Onward(p, q) == q.plan \subseteq p.plan /\ (q.saving => p.saving /\ q.plan = p.plan)

LEMMA IdleHandler == Handler(Idle) /\ Idle.plan = {} /\ ~Idle.saving /\ Idle.stage = "idle"
<1>1. Idle \in PageRec
  BY PageAssumption DEF Idle, PageRec, Stage
<1>2. Todo(Idle) /\ Checked(Idle)
  BY DEF Idle, Todo, Checked
<1>3. QED
  BY <1>1, <1>2 DEF Handler, Idle

(* The conditions on a handler that has moved, in terms of the old one. *)
LEMMA MovedHandler ==
  ASSUME NEW p \in PageRec, NEW s \in Stage \ {"idle"}, NEW t \in SUBSET Field, NEW r \in Board,
         NEW g \in BOOLEAN, t \subseteq p.plan, p.goal \in Config,
         s \in {"apply", "check"} => t # {},
         s = "query" => t = p.plan,
         s \in {"query", "check", "save"} => p.saving,
         s = "check" => \A b \in Board, f \in p.plan \ t : Agreed(p, b, f),
         s = "check" /\ r = 1 /\ g => Agreed(p, 0, Min(t)),
         s = "save" => \A b \in Board, f \in p.plan : Agreed(p, b, f)
  PROVE  Handler(Moved(p, s, t, r, g)) /\ Onward(p, Moved(p, s, t, r, g))
<1> DEFINE q == Moved(p, s, t, r, g)
<1>1. q \in PageRec
  BY MovedRec
<1>2. /\ q.stage = s /\ q.todo = t /\ q.role = r /\ q.good = g
      /\ q.saving = p.saving /\ q.plan = p.plan /\ q.goal = p.goal /\ q.seen = p.seen
  BY MovedFields
<1> HIDE DEF q
<1>3. Todo(q)
  BY <1>2 DEF Todo
<1>4. Checked(q)
  BY <1>2 DEF Checked, Agreed
<1>5. Onward(p, q)
  BY <1>2 DEF Onward
<1>6. QED
  BY <1>1, <1>3, <1>4, <1>5 DEF Handler, q

LEMMA AfterHandler ==
  ASSUME NEW p, Handler(p), p.stage # "idle", NEW g \in BOOLEAN, Fresh(p, g)
  PROVE  Handler(After(p, g)) /\ Onward(p, After(p, g))
<1>1. p \in PageRec /\ Todo(p) /\ Checked(p)
  BY DEF Handler
<1>2. /\ p.stage \in Stage /\ p.todo \in SUBSET Field /\ p.role \in Board
      /\ p.plan \in SUBSET Field /\ p.good \in BOOLEAN /\ p.goal \in Config
  BY <1>1, HandlerFields DEF Todo
<1>3. 0 \in Board /\ 1 \in Board /\ (p.role = 0 \/ p.role = 1)
  BY <1>2, PageAssumption
<1>4. Onward(p, Idle) /\ Handler(Idle)
  BY IdleHandler DEF Onward
<1>5. CASE p.role = 0
  <2>1. p.stage = "check" /\ g => Agreed(p, 0, Min(p.todo))
    BY <1>5 DEF Fresh
  <2>2. Handler(Moved(p, p.stage, p.todo, 1, g)) /\ Onward(p, Moved(p, p.stage, p.todo, 1, g))
    BY <1>1, <1>2, <1>3, <2>1, MovedHandler DEF Todo, Checked
  <2>3. QED
    BY <1>1, <1>5, <2>2, AfterFirst
<1>6. CASE p.role # 0 /\ ~g
  BY <1>1, <1>4, <1>6, AfterBad
<1>7. CASE p.role # 0 /\ g
  <2>1. Rest(p) \in SUBSET Field /\ Rest(p) \subseteq p.plan
    BY <1>1, <1>2 DEF Rest, Todo
  <2>2. CASE p.stage = "save"
    BY <1>1, <1>4, <1>7, <2>2, AfterSecond
  <2>3. CASE p.stage = "query"
    <3>1. CASE p.plan = {}
      <4>1. Handler(Moved(p, "save", p.todo, 0, p.good))
              /\ Onward(p, Moved(p, "save", p.todo, 0, p.good))
        BY <1>1, <1>2, <1>3, <2>3, <3>1, MovedHandler DEF Todo, Stage
      <4>2. QED
        BY <1>1, <1>7, <2>3, <3>1, <4>1, AfterSecond
    <3>2. CASE p.plan # {}
      <4>1. p.todo = p.plan /\ p.saving /\ "check" \in Stage \ {"idle"}
        BY <1>1, <2>3 DEF Todo, Stage
      <4>2. \A b \in Board, f \in p.plan \ p.todo : Agreed(p, b, f)
        BY <4>1
      <4>3. Handler(Moved(p, "check", p.todo, 0, p.good))
              /\ Onward(p, Moved(p, "check", p.todo, 0, p.good))
        BY <1>1, <1>2, <1>3, <3>2, <4>1, <4>2, MovedHandler
      <4>4. QED
        BY <1>1, <1>7, <2>3, <3>2, <4>3, AfterSecond
    <3>3. QED
      BY <3>1, <3>2
  <2>4. CASE p.stage = "apply"
    <3>1. CASE Rest(p) # {}
      <4>1. Handler(Moved(p, "apply", Rest(p), 0, p.good))
              /\ Onward(p, Moved(p, "apply", Rest(p), 0, p.good))
        BY <1>1, <1>2, <1>3, <2>1, <2>4, <3>1, MovedHandler DEF Stage
      <4>2. QED
        BY <1>1, <1>7, <2>4, <3>1, <4>1, AfterSecond
    <3>2. CASE Rest(p) = {} /\ p.saving
      <4>1. Handler(Moved(p, "query", p.plan, 0, p.good))
              /\ Onward(p, Moved(p, "query", p.plan, 0, p.good))
        BY <1>1, <1>2, <1>3, <2>4, <3>2, MovedHandler DEF Stage
      <4>2. QED
        BY <1>1, <1>7, <2>4, <3>2, <4>1, AfterSecond
    <3>3. CASE Rest(p) = {} /\ ~p.saving
      BY <1>1, <1>4, <1>7, <2>4, <3>3, AfterSecond
    <3>4. QED
      BY <3>1, <3>2, <3>3
  <2>5. CASE p.stage = "check"
    <3>1. ASSUME NEW b \in Board, NEW f \in p.plan \ Rest(p) PROVE Agreed(p, b, f)
      <4>1. CASE f \in p.todo
        <5>1. f = Min(p.todo)
          BY <4>1 DEF Rest
        <5>2. Agreed(p, 1, f)
          BY <1>3, <1>7, <2>5, <5>1 DEF Fresh
        <5>3. Agreed(p, 0, f)
          BY <1>1, <1>3, <1>7, <2>5, <5>1 DEF Fresh, Checked
        <5>4. QED
          BY <5>2, <5>3, PageAssumption
      <4>2. CASE f \notin p.todo
        BY <1>1, <2>5, <4>2 DEF Checked
      <4>3. QED
        BY <4>1, <4>2
    <3>2. CASE Rest(p) # {}
      <4>1. Handler(Moved(p, "check", Rest(p), 0, p.good))
              /\ Onward(p, Moved(p, "check", Rest(p), 0, p.good))
        BY <1>1, <1>2, <1>3, <2>1, <2>5, <3>1, <3>2, MovedHandler DEF Stage, Todo
      <4>2. QED
        BY <1>1, <1>7, <2>5, <3>2, <4>1, AfterSecond
    <3>3. CASE Rest(p) = {}
      <4>1. \A b \in Board, f \in p.plan : Agreed(p, b, f)
        BY <3>1, <3>3
      <4>2. Handler(Moved(p, "save", {}, 0, p.good))
              /\ Onward(p, Moved(p, "save", {}, 0, p.good))
        BY <1>1, <1>2, <1>3, <2>5, <4>1, MovedHandler DEF Stage, Todo
      <4>3. QED
        BY <1>1, <1>7, <2>5, <3>3, <4>2, AfterSecond
    <3>4. QED
      BY <3>2, <3>3
  <2>6. QED
    BY <1>2, <2>2, <2>3, <2>4, <2>5 DEF Stage
<1>8. QED
  BY <1>5, <1>6, <1>7

-----------------------------------------------------------------------------
(* The page goes on, or stops, and the form stays in step with it. *)

(* The same request of the same handler, whatever has been learnt of it. *)
SameJob(p, q) ==
  /\ p.stage = q.stage /\ p.saving = q.saving /\ p.plan = q.plan
  /\ p.todo = q.todo /\ p.role = q.role /\ p.goal = q.goal

(* The field a request is about. *)
LEMMA AboutField ==
  ASSUME NEW p, Handler(p), p.stage \in {"apply", "check"}
  PROVE  Min(p.todo) \in p.todo /\ Min(p.todo) \in p.plan /\ Min(p.todo) \in Field
<1>1. p \in PageRec /\ Todo(p)
  BY DEF Handler
<1>2. p.todo \in SUBSET Field /\ p.todo # {} /\ p.todo \subseteq p.plan
  BY <1>1, HandlerFields DEF Todo
<1>3. QED
  BY <1>2, LeastField

LEMMA HearKeeps ==
  ASSUME FormOK, Handler(page), page.stage # "idle",
         NEW p, Handler(p), SameJob(p, page), NEW ok \in BOOLEAN,
         Fresh(p, p.good /\ ok), Hear(p, ok)
  PROVE  Handler(page') /\ FormOK'
<1> DEFINE good == p.good /\ ok
<1>1. good \in BOOLEAN
  OBVIOUS
<1>2. page' = After(p, good) /\ p.stage # "idle"
  BY DEF Hear, SameJob
<1>3. Handler(page') /\ Onward(p, page')
  BY <1>1, <1>2, AfterHandler
<1>4. /\ tried' = IF p.stage = "apply" THEN tried \cup {Field1}
                  ELSE IF p.stage = "save" /\ p.role = 1 /\ good THEN tried \ p.plan ELSE tried
      /\ unconf' = IF p.stage = "save" /\ p.role = 1 /\ good THEN unconf \ p.plan ELSE unconf
      /\ base' = IF p.stage = "apply" /\ p.role = 1 /\ good
                 THEN [base EXCEPT ![Field1] = p.goal[Field1]] ELSE base
      /\ want' = want
  BY DEF Hear
<1>5. p.plan = page.plan /\ p.saving = page.saving /\ p.goal = page.goal
  BY DEF SameJob
<1> HIDE DEF good
<1>6. page'.plan \subseteq page.plan /\ (page'.saving => page.saving /\ page'.plan = page.plan)
  BY <1>3, <1>5 DEF Onward
<1>7. page.plan \subseteq unconf /\ tried \subseteq unconf /\ unconf \subseteq Field
      /\ (page.saving => tried \subseteq page.plan) /\ base \in Config /\ want \in Config
  BY DEF FormOK
<1>8. CASE p.stage = "apply"
  <2>1. Field1 \in page.plan /\ Field1 \in Field
    BY <1>8, AboutField DEF SameJob, Field1
  <2>2. page.goal \in Config
    BY DEF Handler, Todo
  <2>3. base' \in Config
    BY <1>4, <1>5, <1>7, <2>1, <2>2 DEF Config
  <2>4. unconf' = unconf /\ tried' = tried \cup {Field1} /\ want' = want
    BY <1>4, <1>8
  <2>5. FormOK'
    BY <1>6, <1>7, <2>1, <2>3, <2>4 DEF FormOK
  <2>6. QED
    BY <1>3, <2>5
<1>9. CASE p.stage = "save" /\ p.role = 1 /\ good
  <2>1. page' = Idle
    BY <1>2, <1>9, AfterSaved
  <2>2. page'.plan = {} /\ ~page'.saving
    BY <2>1, IdleHandler
  <2>3. unconf' = unconf \ p.plan /\ tried' = tried \ p.plan /\ base' = base /\ want' = want
    BY <1>4, <1>9
  <2>4. FormOK'
    BY <1>7, <2>2, <2>3 DEF FormOK
  <2>5. QED
    BY <1>3, <2>4
<1>10. CASE p.stage # "apply" /\ ~(p.stage = "save" /\ p.role = 1 /\ good)
  <2>1. unconf' = unconf /\ tried' = tried /\ base' = base /\ want' = want
    BY <1>4, <1>10
  <2>2. FormOK'
    BY <1>6, <1>7, <2>1 DEF FormOK
  <2>3. QED
    BY <1>3, <2>2
<1>11. QED
  BY <1>8, <1>9, <1>10

LEMMA StopKeeps ==
  ASSUME FormOK, Handler(page), Stop
  PROVE  Handler(page') /\ FormOK'
<1>1. page' = Idle /\ Handler(page') /\ page'.plan = {} /\ ~page'.saving
  BY IdleHandler DEF Stop
<1>2. page.plan \subseteq unconf /\ tried \subseteq unconf
  BY DEF FormOK
<1>3. tried' \subseteq unconf
  <2>1. CASE page.stage = "apply"
    BY <1>2, <2>1, AboutField DEF Stop, Field1
  <2>2. CASE page.stage # "apply"
    BY <1>2, <2>2 DEF Stop
  <2>3. QED
    BY <2>1, <2>2
<1>4. want' = want /\ base' = base /\ unconf' = unconf
  BY DEF Stop
<1>5. QED
  BY <1>1, <1>3, <1>4 DEF FormOK

-----------------------------------------------------------------------------
(* What is learnt of a board changes nothing else of the handler. *)

Applied(p, b, c) == [p EXCEPT !.applied[b] = c]
Saw(p, b, c) == [p EXCEPT !.seen[b] = c]

LEMMA AppliedFields ==
  ASSUME NEW p \in PageRec, NEW b \in Board, NEW c \in Config
  PROVE  /\ Applied(p, b, c) \in PageRec /\ SameJob(Applied(p, b, c), p)
         /\ Applied(p, b, c).seen = p.seen
  BY DEF Applied, PageRec, SameJob

LEMMA SawFields ==
  ASSUME NEW p \in PageRec, NEW b \in Board, NEW c \in Config
  PROVE  Saw(p, b, c) \in PageRec /\ SameJob(Saw(p, b, c), p)
  BY DEF Saw, PageRec, SameJob

LEMMA SameTodo ==
  ASSUME NEW p, NEW q, SameJob(p, q), Todo(q)
  PROVE  Todo(p)
  BY DEF SameJob, Todo

(* The handler that begins. *)
Begun(fields, saving) ==
  [Idle EXCEPT !.stage = IF fields = {} THEN "query" ELSE "apply",
               !.saving = saving, !.plan = fields, !.todo = fields, !.goal = want]

Full(s, v, p, t, r, g, w, a, e) ==
  [stage |-> s, saving |-> v, plan |-> p, todo |-> t, role |-> r, good |-> g, goal |-> w,
   applied |-> a, seen |-> e]

Unheard == [b \in Board |-> None]

LEMMA BegunFields ==
  ASSUME NEW fields, NEW saving
  PROVE  Begun(fields, saving)
           = Full(IF fields = {} THEN "query" ELSE "apply", saving, fields, fields, 0, TRUE,
                  want, Unheard, Unheard)
<1> DEFINE s == IF fields = {} THEN "query" ELSE "apply"
<1> DEFINE no == FALSE
<1> DEFINE yes == TRUE
<1> DEFINE first == 0
<1> DEFINE nil == {}
<1> DEFINE a == Full("idle", no, nil, nil, first, yes, None, Unheard, Unheard)
<1> DEFINE b == Full(s, no, nil, nil, first, yes, None, Unheard, Unheard)
<1> DEFINE c == Full(s, saving, nil, nil, first, yes, None, Unheard, Unheard)
<1> DEFINE d == Full(s, saving, fields, nil, first, yes, None, Unheard, Unheard)
<1> DEFINE e == Full(s, saving, fields, fields, first, yes, None, Unheard, Unheard)
<1>1. Begun(fields, saving)
        = [Idle EXCEPT !.stage = s, !.saving = saving, !.plan = fields, !.todo = fields,
                       !.goal = want]
  BY DEF Begun
<1>2. Idle = a
  BY DEF Idle, Full, Unheard
<1> HIDE DEF s, no, yes, first, nil
<1>3. [a EXCEPT !.stage = s] = b
  BY DEF Full
<1>4. [b EXCEPT !.saving = saving] = c
  BY DEF Full
<1>5. [c EXCEPT !.plan = fields] = d
  BY DEF Full
<1>6. [d EXCEPT !.todo = fields] = e
  BY DEF Full
<1>7. [e EXCEPT !.goal = want]
        = Full(s, saving, fields, fields, first, yes, want, Unheard, Unheard)
  BY DEF Full
<1> HIDE DEF a, b, c, d, e
<1>8. Begun(fields, saving) = [e EXCEPT !.goal = want]
  BY <1>1, <1>2, <1>3, <1>4, <1>5, <1>6, Zenon
<1>9. QED
  BY <1>7, <1>8 DEF s, first, yes

LEMMA BegunHandler ==
  ASSUME NEW fields \in SUBSET Field, NEW saving \in BOOLEAN, want \in Config,
         fields = {} => saving
  PROVE  /\ Handler(Begun(fields, saving))
         /\ Begun(fields, saving).plan = fields /\ Begun(fields, saving).saving = saving
<1> DEFINE s == IF fields = {} THEN "query" ELSE "apply"
<1> DEFINE p == Full(s, saving, fields, fields, 0, TRUE, want, Unheard, Unheard)
<1>1. s \in Stage /\ (s = "query" => fields = {}) /\ (s = "apply" => fields # {})
      /\ s \in {"query", "apply"} /\ 0 \in Board
  BY PageAssumption DEF Stage
<1> HIDE DEF s
<1>2. p \in PageRec
  BY <1>1 DEF Full, PageRec, Unheard
<1>3. /\ p.stage = s /\ p.saving = saving /\ p.plan = fields /\ p.todo = fields
      /\ p.goal = want
  BY DEF Full
<1> HIDE DEF p
<1>4. Todo(p) /\ Checked(p)
  BY <1>1, <1>3 DEF Todo, Checked
<1>5. Begun(fields, saving) = p
  BY BegunFields DEF p, s
<1>6. QED
  BY <1>2, <1>3, <1>4, <1>5 DEF Handler

-----------------------------------------------------------------------------
(* Every step of the page is a step of the store, or leaves it alone. *)

StoreNextOf(b) ==
  \/ \E f \in Field, v \in Value : Set(b, f, v)
  \/ \E d \in Config : SaveBegin(b, d)
  \/ SaveWrite(b) \/ SaveEnd(b) \/ Core1(b)
  \/ \E left \in Image \cup {Blank} : Restart(b, left)

(* What the page asks of a board's settings. *)
LEMMA SetIsStep ==
  ASSUME NEW b \in Board, NEW p, Handler(p), p.stage = "apply",
         Set(b, Min(p.todo), p.goal[Min(p.todo)])
  PROVE  StoreNextOf(b)
<1>1. Min(p.todo) \in Field
  BY AboutField
<1>2. p.goal \in Config
  BY DEF Handler, Todo
<1>3. p.goal[Min(p.todo)] \in Value
  BY <1>1, <1>2 DEF Config
<1>4. QED
  BY <1>1, <1>3 DEF StoreNextOf

LEMMA SaveIsStep ==
  ASSUME StoreInv, NEW b \in Board, NEW d, SaveBegin(b, d)
  PROVE  StoreNextOf(b)
<1>1. d = config[b]
  BY DEF SaveBegin, MaySave
<1>2. d \in Config
  BY <1>1 DEF StoreInv, StoreTypeOK
<1>3. QED
  BY <1>2 DEF StoreNextOf

LEMMA RestartIsStep ==
  ASSUME StoreInv, NEW b \in Board, NEW left \in {flash[b], Blank}, Restart(b, left)
  PROVE  StoreNextOf(b)
<1>1. left \in Image \cup {Blank}
  BY DEF StoreInv, StoreTypeOK
<1>2. QED
  BY <1>1 DEF StoreNextOf

LEMMA OthersAreCore1 ==
  ASSUME NEW b \in Board, Others(b)
  PROVE  Core1(b)
  BY DEF Others, Core1

(* A board, or the page's dealings with it. *)
BoardStep(b) ==
  \/ Apply(b) \/ Query(b) \/ Check(b) \/ AskSave(b) \/ Write(b) \/ Saved(b)
  \/ GiveUp(b) \/ LateRuns(b) \/ Others(b) \/ Boot(b)

LEMMA BoardSteps ==
  ASSUME PageIInv, NEW b \in Board, BoardStep(b)
  PROVE  StoreNextOf(b) \/ UNCHANGED store
<1>1. StoreInv /\ Handler(page) /\ LateOK(b)
  BY DEF PageIInv
<1>2. CASE Apply(b)
  BY <1>1, <1>2, SetIsStep DEF Apply, Asked, Field1
<1>3. CASE Query(b) \/ Check(b) \/ GiveUp(b)
  BY <1>3 DEF Query, Check, GiveUp
<1>4. CASE AskSave(b)
  BY <1>1, <1>4, SaveIsStep DEF AskSave
<1>5. CASE Write(b) \/ Saved(b)
  BY <1>5 DEF Write, Saved, StoreNextOf
<1>6. CASE LateRuns(b)
  <2>1. Handler(late[b])
    BY <1>1, <1>6 DEF LateRuns, LateOK
  <2>2. QED
    BY <1>1, <1>6, <2>1, SetIsStep, SaveIsStep DEF LateRuns
<1>7. CASE Others(b)
  BY <1>7, OthersAreCore1 DEF StoreNextOf
<1>8. CASE Boot(b)
  BY <1>1, <1>8, RestartIsStep DEF Boot
<1>9. QED
  BY <1>2, <1>3, <1>4, <1>5, <1>6, <1>7, <1>8 DEF BoardStep

(* What the user does to the form. *)
UserStep ==
  \/ \E f \in Field :
       \/ \E v \in Value : UserChanges(f, v)
       \/ Read(f)
       \/ Forget(f)
       \/ f \in Planned /\ Begin({f}, FALSE)
  \/ Begin(Planned, TRUE)

LEMMA UserStepsElsewhere ==
  ASSUME UserStep
  PROVE  UNCHANGED store /\ UNCHANGED <<late, heeded, sure>>
<1>1. ASSUME NEW f \in Field, NEW v \in Value, UserChanges(f, v)
      PROVE  UNCHANGED store /\ UNCHANGED <<late, heeded, sure>>
  BY <1>1 DEF UserChanges
<1>2. ASSUME NEW f \in Field, Read(f) \/ Forget(f)
      PROVE  UNCHANGED store /\ UNCHANGED <<late, heeded, sure>>
  BY <1>2 DEF Read, Forget
<1>3. ASSUME NEW fields, NEW saving, Begin(fields, saving)
      PROVE  UNCHANGED store /\ UNCHANGED <<late, heeded, sure>>
  BY <1>3 DEF Begin
<1>4. QED
  BY <1>1, <1>2, <1>3 DEF UserStep

LEMMA NextIs == Next <=> UserStep \/ \E b \in Board : BoardStep(b)
  BY DEF Next, UserStep, BoardStep

LEMMA StorePart == PageIInv /\ [Next]_vars => [StoreNext]_store
<1>1. SUFFICES ASSUME PageIInv, Next PROVE StoreNext \/ UNCHANGED store
  BY DEF vars
<1>2. CASE UserStep
  BY <1>2, UserStepsElsewhere
<1>3. ASSUME NEW b \in Board, BoardStep(b) PROVE StoreNext \/ UNCHANGED store
  BY <1>1, <1>3, BoardSteps DEF StoreNext, StoreNextOf
<1>4. QED
  BY <1>1, <1>2, <1>3, NextIs

-----------------------------------------------------------------------------
(* The page and its form keep in step. *)

LEMMA UserKeepsForm ==
  ASSUME PageIInv, UserStep
  PROVE  Handler(page') /\ FormOK'
<1>1. Handler(page) /\ FormOK /\ StoreInv
  BY DEF PageIInv
<1>2. page.stage = "idle" => page.plan = {} /\ ~page.saving
  BY <1>1 DEF Handler, Todo
<1>3. ASSUME NEW f \in Field, NEW v \in Value, UserChanges(f, v)
      PROVE  Handler(page') /\ FormOK'
  <2>1. want' \in Config
    BY <1>1, <1>3 DEF UserChanges, FormOK, Config
  <2>2. base' = base /\ unconf' = unconf /\ tried' = tried /\ page' = page
    BY <1>3 DEF UserChanges
  <2>3. QED
    BY <1>1, <2>1, <2>2 DEF FormOK
<1>4. ASSUME NEW f \in Field, Read(f)
      PROVE  Handler(page') /\ FormOK'
  <2>1. config[Bridge] \in Config
    BY <1>1, PageAssumption DEF StoreInv, StoreTypeOK
  <2>2. want' \in Config /\ base' \in Config
    BY <1>1, <1>4, <2>1 DEF Read, FormOK, Config
  <2>3. unconf' = unconf /\ tried' = tried /\ page' = page
    BY <1>4 DEF Read
  <2>4. QED
    BY <1>1, <2>2, <2>3 DEF FormOK
<1>5. ASSUME NEW f \in Field, Forget(f)
      PROVE  Handler(page') /\ FormOK'
  <2>1. f \notin tried /\ unconf' = unconf \ {f} /\ page.stage = "idle"
    BY <1>5 DEF Forget, Reverted
  <2>2. want' = want /\ base' = base /\ tried' = tried /\ page' = page
    BY <1>5 DEF Forget
  <2>3. QED
    BY <1>1, <1>2, <2>1, <2>2 DEF FormOK
<1>6. ASSUME NEW fields \in SUBSET Field, NEW saving \in BOOLEAN, Begin(fields, saving),
             fields = {} => saving, saving => fields = Planned
      PROVE  Handler(page') /\ FormOK'
  <2>1. page' = Begun(fields, saving) \/ page' = Idle
    BY <1>6 DEF Begin, Begun
  <2>2. /\ Handler(page') /\ page'.plan \subseteq fields
        /\ page'.saving => saving /\ page'.plan = fields
    <3>1. CASE page' = Begun(fields, saving)
      BY <1>1, <1>6, <3>1, BegunHandler DEF FormOK
    <3>2. CASE page' = Idle
      BY <3>2, IdleHandler
    <3>3. QED
      BY <2>1, <3>1, <3>2
  <2>3. want' = want /\ base' = base /\ tried' = tried
    BY <1>6 DEF Begin
  <2>4. unconf' = (IF saving THEN unconf \ Reverted ELSE unconf) \cup fields
    BY <1>6 DEF Begin, Remember
  <2>5. tried \cap Reverted = {} /\ tried \subseteq unconf /\ unconf \subseteq Field
    BY <1>1 DEF FormOK, Reverted
  <2>6. unconf' \subseteq Field /\ tried \subseteq unconf' /\ fields \subseteq unconf'
    BY <2>4, <2>5
  <2>7. saving => tried \subseteq fields
    BY <1>6, <2>5 DEF Planned
  <2>8. QED
    BY <1>1, <2>2, <2>3, <2>6, <2>7 DEF FormOK
<1>7. Planned \in SUBSET Field
  BY DEF Planned
<1>8. QED
  BY <1>3, <1>4, <1>5, <1>6, <1>7 DEF UserStep

(* An answer that is not about a check, or that no check passes. *)
LEMMA AnswerKeepsForm ==
  ASSUME PageIInv, page.stage # "idle", NEW ok \in BOOLEAN, Hear(page, ok),
         ok => page.stage # "check"
  PROVE  Handler(page') /\ FormOK'
<1>1. Handler(page) /\ FormOK
  BY DEF PageIInv
<1>2. Fresh(page, page.good /\ ok)
  BY DEF Fresh
<1>3. SameJob(page, page)
  BY DEF SameJob
<1>4. QED
  BY <1>1, <1>2, <1>3, HearKeeps

LEMMA BoardKeepsForm ==
  ASSUME PageIInv, NEW b \in Board, BoardStep(b)
  PROVE  Handler(page') /\ FormOK'
<1>1. Handler(page) /\ FormOK /\ StoreInv /\ page \in PageRec /\ Todo(page) /\ Checked(page)
  BY DEF PageIInv, Handler
<1>2. UNCHANGED <<form, page>> => Handler(page') /\ FormOK'
  BY <1>1 DEF form, FormOK
<1>3. CASE Apply(b)
  <2>1. page.stage = "apply"
    BY <1>3 DEF Apply, Asked
  <2>2. CASE Hear(page, FALSE)
    BY <2>1, <2>2, AnswerKeepsForm
  <2>3. CASE Set(b, Field1, page.goal[Field1]) /\ Hear(Applied(page, b, config'[b]), TRUE)
    <3>1. StoreInv'
      BY <1>1, <2>1, <2>3, SetIsStep, StoreStep DEF StoreNextOf, StoreNext, Field1
    <3>2. config'[b] \in Config
      BY <3>1 DEF StoreInv, StoreTypeOK
    <3> DEFINE p == Applied(page, b, config'[b])
    <3>3. p \in PageRec /\ SameJob(p, page)
      BY <1>1, <3>2, AppliedFields
    <3>4. Hear(p, TRUE)
      BY <2>3
    <3> HIDE DEF p
    <3>5. p.stage = "apply"
      BY <2>1, <3>3 DEF SameJob
    <3>6. Handler(p) /\ Fresh(p, p.good /\ TRUE)
      BY <1>1, <3>3, <3>5, SameTodo DEF Handler, Checked, Fresh
    <3>7. QED
      BY <1>1, <2>1, <3>3, <3>4, <3>6, HearKeeps
  <2>4. QED
    BY <1>3, <2>2, <2>3 DEF Apply, Applied
<1>4. CASE Query(b)
  <2> DEFINE p == Saw(page, b, config[b])
  <2> DEFINE ok == page.plan # {} => config[b] = page.applied[b]
  <2>1. page.stage = "query" /\ Hear(p, ok)
    BY <1>4 DEF Query, Asked, Saw
  <2>2. config[b] \in Config
    BY <1>1 DEF StoreInv, StoreTypeOK
  <2>3. p \in PageRec /\ SameJob(p, page)
    BY <1>1, <2>2, SawFields
  <2>4. ok \in BOOLEAN
    OBVIOUS
  <2> HIDE DEF p, ok
  <2>5. p.stage = "query"
    BY <2>1, <2>3 DEF SameJob
  <2>6. Handler(p) /\ Fresh(p, p.good /\ ok)
    BY <1>1, <2>3, <2>5, SameTodo DEF Handler, Checked, Fresh
  <2>7. QED
    BY <1>1, <2>1, <2>3, <2>4, <2>6, HearKeeps
<1>5. CASE Check(b)
  <2> DEFINE ok == config[b][Field1] = page.goal[Field1] /\ config[b] = page.seen[b]
  <2>1. page.stage = "check" /\ page.role = b /\ Hear(page, ok)
    BY <1>5 DEF Check, Asked
  <2>2. ok \in BOOLEAN /\ (ok => Agreed(page, b, Field1))
    BY DEF Agreed
  <2> HIDE DEF ok
  <2>3. SameJob(page, page)
    BY DEF SameJob
  <2>4. Fresh(page, page.good /\ ok)
    BY <2>1, <2>2 DEF Fresh, Field1
  <2>5. QED
    BY <1>1, <2>1, <2>2, <2>3, <2>4, HearKeeps
<1>6. CASE AskSave(b)
  <2>1. page.stage = "save" /\ (Hear(page, FALSE) \/ UNCHANGED <<form, page>>)
    BY <1>6 DEF AskSave, Asked
  <2>2. QED
    BY <1>2, <2>1, AnswerKeepsForm
<1>7. CASE Write(b) \/ LateRuns(b) \/ Others(b)
  BY <1>2, <1>7 DEF Write, LateRuns, Others
<1>8. CASE Saved(b)
  <2>1. CASE heeded[b]
    <3>1. page.stage = "save"
      BY <2>1 DEF PageIInv, HeedOK
    <3>2. Hear(page, SaveGood(b)) /\ SaveGood(b) \in BOOLEAN
      BY <1>8, <2>1 DEF Saved, SaveGood
    <3>3. QED
      BY <3>1, <3>2, AnswerKeepsForm
  <2>2. CASE ~heeded[b]
    BY <1>2, <1>8, <2>2 DEF Saved
  <2>3. QED
    BY <2>1, <2>2
<1>9. CASE GiveUp(b)
  <2>1. page.stage # "idle" /\ (Hear(page, FALSE) \/ Stop)
    BY <1>9 DEF GiveUp
  <2>2. QED
    BY <1>1, <2>1, AnswerKeepsForm, StopKeeps
<1>10. CASE Boot(b)
  <2>1. \/ page.stage # "idle" /\ (Stop \/ Hear(page, FALSE))
        \/ UNCHANGED <<form, page>>
    BY <1>10 DEF Boot
  <2>2. QED
    BY <1>1, <1>2, <2>1, AnswerKeepsForm, StopKeeps
<1>11. QED
  BY <1>3, <1>4, <1>5, <1>6, <1>7, <1>8, <1>9, <1>10 DEF BoardStep

-----------------------------------------------------------------------------
(* What one board does leaves the other's settings alone. *)

Untouched(c) ==
  /\ config'[c] = config[c] /\ flash'[c] = flash[c] /\ buffer'[c] = buffer[c]
  /\ core0'[c] = core0[c] /\ expected'[c] = expected[c] /\ core1'[c] = core1[c]

LEMMA UnchangedUntouched ==
  ASSUME UNCHANGED store, NEW c
  PROVE  Untouched(c)
  BY DEF store, Untouched

LEMMA OtherUntouched ==
  ASSUME StoreInv, NEW b \in Board, NEW c \in Board, c # b, StoreNextOf(b)
  PROVE  Untouched(c)
<1>1. StoreTypeOK
  BY DEF StoreInv
<1>2. ASSUME NEW f \in Field, NEW v \in Value, Set(b, f, v) \/ LocalEdit(b, f, v)
      PROVE  Untouched(c)
  BY <1>1, <1>2 DEF StoreTypeOK, Set, LocalEdit, Untouched
<1>3. ASSUME NEW d \in Config, SaveBegin(b, d)
      PROVE  Untouched(c)
  BY <1>1, <1>3 DEF StoreTypeOK, SaveBegin, Untouched
<1>4. CASE SaveWrite(b) \/ SaveEnd(b)
  BY <1>1, <1>4 DEF StoreTypeOK, SaveWrite, SaveEnd, Untouched
<1>5. CASE LegacyBegin(b) \/ LegacyWrite(b)
  BY <1>1, <1>5 DEF StoreTypeOK, LegacyBegin, LegacyWrite, Untouched
<1>6. CASE Wipe(b) \/ LoadRead(b) \/ LoadPublish(b)
  BY <1>1, <1>6 DEF StoreTypeOK, Wipe, LoadRead, LoadPublish, Untouched
<1>7. CASE PullBegin(b) \/ PullFill(b) \/ PullCommit(b) \/ PullEnd(b)
  BY <1>1, <1>7 DEF StoreTypeOK, PullBegin, PullFill, PullCommit, PullEnd, Untouched
<1>8. ASSUME NEW left \in Image \cup {Blank}, Restart(b, left)
      PROVE  Untouched(c)
  BY <1>1, <1>8 DEF StoreTypeOK, Restart, Untouched
<1>9. QED
  BY <1>2, <1>3, <1>4, <1>5, <1>6, <1>7, <1>8 DEF StoreNextOf, Core1

LEMMA BoardUntouched ==
  ASSUME PageIInv, NEW b \in Board, NEW c \in Board, c # b, BoardStep(b)
  PROVE  Untouched(c)
  BY BoardSteps, UnchangedUntouched, OtherUntouched DEF PageIInv

LEMMA Core1Leaves ==
  ASSUME NEW b \in Board, Core1(b)
  PROVE  core0' = core0 /\ expected' = expected
  BY DEF Core1, LocalEdit, LegacyBegin, LegacyWrite, Wipe, LoadRead, LoadPublish, PullBegin,
         PullFill, PullCommit, PullEnd

-----------------------------------------------------------------------------
(* The page waits for nothing but its own save. *)

LEMMA HeedUntouched ==
  ASSUME NEW c \in Board, HeedOK(c), Untouched(c), page' = page, heeded'[c] => heeded[c]
  PROVE  HeedOK(c)'
  BY DEF HeedOK, Untouched, Saving0

(* A request that a board can still answer is not a save it is executing.  *)
LEMMA NoneHeeded ==
  ASSUME PageIInv, NEW b \in Board, page.role = b, core0[b] = "none" \/ page.stage # "save",
         NEW c \in Board
  PROVE  ~heeded[c]
  BY DEF PageIInv, HeedOK, Saving0

LEMMA BoardKeepsHeed ==
  ASSUME PageIInv, NEW b \in Board, BoardStep(b), NEW c \in Board
  PROVE  HeedOK(c)'
<1>1. HeedOK(c) /\ HeedOK(b) /\ StoreInv /\ heeded \in [Board -> BOOLEAN]
  BY DEF PageIInv, Flags
<1>2. c # b => Untouched(c)
  BY BoardUntouched
<1>3. CASE Apply(b) \/ Query(b) \/ Check(b)
  <2>1. page.role = b /\ core0[b] = "none" /\ heeded' = heeded
    BY <1>3 DEF Apply, Query, Check, Asked
  <2>2. ~heeded[c]
    BY <2>1, NoneHeeded
  <2>3. QED
    BY <2>1, <2>2 DEF HeedOK
<1>4. CASE AskSave(b)
  <2>1. page.stage = "save" /\ page.role = b /\ core0[b] = "none"
    BY <1>4 DEF AskSave, Asked
  <2>2. ~heeded[c]
    BY <2>1, NoneHeeded
  <2>3. CASE SaveBegin(b, page.seen[b]) /\ heeded' = [heeded EXCEPT ![b] = TRUE] /\ page' = page
    <3>1. core0'[b] = "filled" /\ expected'[b] = page.seen[b]
      BY <1>1, <2>3 DEF SaveBegin, StoreInv, StoreTypeOK
    <3>2. c # b => ~heeded'[c]
      BY <1>1, <2>2, <2>3
    <3>3. QED
      BY <2>1, <2>3, <3>1, <3>2 DEF HeedOK, Saving0
  <2>4. CASE heeded' = heeded
    BY <2>2, <2>4 DEF HeedOK
  <2>5. QED
    BY <1>4, <2>3, <2>4 DEF AskSave
<1>5. CASE Write(b)
  <2>1. page' = page /\ heeded' = heeded
    BY <1>5 DEF Write
  <2>2. CASE c = b
    <3>1. core0'[b] = "written" /\ expected' = expected
      BY <1>1, <1>5 DEF Write, SaveWrite, StoreInv, StoreTypeOK
    <3>2. QED
      BY <1>1, <2>1, <2>2, <3>1 DEF HeedOK, Saving0
  <2>3. QED
    BY <1>1, <1>2, <2>1, <2>2, HeedUntouched
<1>6. CASE Saved(b)
  <2>1. heeded' = [heeded EXCEPT ![b] = FALSE]
    BY <1>6 DEF Saved
  <2>2. CASE c = b
    BY <1>1, <2>1, <2>2 DEF HeedOK
  <2>3. CASE c # b /\ heeded[c]
    <3>1. ~heeded[b]
      BY <1>1, <2>3 DEF HeedOK
    <3>2. page' = page
      BY <1>6, <3>1 DEF Saved
    <3>3. QED
      BY <1>1, <1>2, <2>3, <3>2, HeedUntouched
  <2>4. CASE c # b /\ ~heeded[c]
    BY <1>1, <2>1, <2>4 DEF HeedOK
  <2>5. QED
    BY <2>2, <2>3, <2>4
<1>7. CASE GiveUp(b)
  <2>1. heeded' = [heeded EXCEPT ![b] = FALSE] /\ page.role = b
    BY <1>7 DEF GiveUp
  <2>2. ~heeded'[c]
    BY <1>1, <2>1 DEF HeedOK
  <2>3. QED
    BY <2>2 DEF HeedOK
<1>8. CASE LateRuns(b)
  <2>1. page' = page /\ heeded' = heeded /\ core0[b] = "none"
    BY <1>8 DEF LateRuns
  <2>2. CASE c = b
    BY <1>1, <2>1, <2>2 DEF HeedOK, Saving0
  <2>3. QED
    BY <1>1, <1>2, <2>1, <2>2, HeedUntouched
<1>9. CASE Others(b)
  <2>1. page' = page /\ heeded' = heeded
    BY <1>9 DEF Others
  <2>2. core0' = core0 /\ expected' = expected
    BY <1>9, OthersAreCore1, Core1Leaves
  <2>3. QED
    BY <1>1, <2>1, <2>2 DEF HeedOK, Saving0
<1>10. CASE Boot(b)
  <2>1. heeded'[c] => heeded[c] /\ c # b /\ b # Bridge
    BY <1>10 DEF Boot
  <2>2. CASE ~heeded'[c]
    BY <2>2 DEF HeedOK
  <2>3. CASE heeded'[c]
    <3>1. ~heeded[b] /\ b # Bridge /\ c # b /\ page.stage # "idle"
      BY <1>1, <2>1, <2>3 DEF HeedOK
    <3>2. page' = page
      BY <1>10, <3>1 DEF Boot
    <3>3. QED
      BY <1>1, <1>2, <2>1, <3>1, <3>2, HeedUntouched
  <2>4. QED
    BY <2>2, <2>3
<1>11. QED
  BY <1>3, <1>4, <1>5, <1>6, <1>7, <1>8, <1>9, <1>10 DEF BoardStep

LEMMA UserKeepsHeed ==
  ASSUME PageIInv, UserStep, NEW c \in Board
  PROVE  HeedOK(c)'
<1>1. HeedOK(c) /\ UNCHANGED store /\ heeded' = heeded
  BY UserStepsElsewhere DEF PageIInv
<1>2. Untouched(c)
  BY <1>1, UnchangedUntouched
<1>3. ASSUME NEW f \in Field, NEW v \in Value, UserChanges(f, v)
      PROVE  page' = page
  BY <1>3 DEF UserChanges
<1>4. ASSUME NEW f \in Field, Read(f) \/ Forget(f)
      PROVE  page' = page
  BY <1>4 DEF Read, Forget
<1>5. ASSUME NEW fields, NEW saving, Begin(fields, saving)
      PROVE  page.stage = "idle"
  BY <1>5 DEF Begin
<1>6. page' = page \/ page.stage = "idle"
  BY <1>3, <1>4, <1>5 DEF UserStep
<1>7. CASE page' = page
  BY <1>1, <1>2, <1>7, HeedUntouched
<1>8. CASE page.stage = "idle"
  BY <1>1, <1>8 DEF HeedOK
<1>9. QED
  BY <1>6, <1>7, <1>8

-----------------------------------------------------------------------------
(* A request that is late is one the page has made. *)
LEMMA BoardKeepsLate ==
  ASSUME PageIInv, NEW b \in Board, BoardStep(b), NEW c \in Board
  PROVE  late' \in [Board -> PageRec \cup {None}] /\ LateOK(c)'
<1>1. Handler(page) /\ page \in PageRec /\ LateOK(c) /\ late \in [Board -> PageRec \cup {None}]
  BY DEF PageIInv, Flags, Handler
<1>2. CASE late' = late
  BY <1>1, <1>2 DEF LateOK
<1>3. CASE late' = [late EXCEPT ![b] = page] /\ page.stage \in {"apply", "save"}
  BY <1>1, <1>3 DEF LateOK
<1>4. CASE late' = [late EXCEPT ![b] = None]
  BY <1>1, <1>4 DEF LateOK
<1>5. \/ late' = late
      \/ late' = [late EXCEPT ![b] = page] /\ page.stage \in {"apply", "save"}
      \/ late' = [late EXCEPT ![b] = None]
  BY DEF BoardStep, Apply, Query, Check, AskSave, Write, Saved, GiveUp, LateRuns, Others, Boot
<1>6. QED
  BY <1>2, <1>3, <1>4, <1>5

LEMMA BoardKeepsHeeded ==
  ASSUME PageIInv, NEW b \in Board, BoardStep(b)
  PROVE  heeded' \in [Board -> BOOLEAN]
<1>1. heeded \in [Board -> BOOLEAN]
  BY DEF PageIInv, Flags
<1>2. \/ heeded' = heeded \/ heeded' = [heeded EXCEPT ![b] = TRUE]
      \/ heeded' = [heeded EXCEPT ![b] = FALSE]
      \/ heeded' = [c \in Board |-> heeded[c] /\ c # b /\ b # Bridge]
  BY DEF BoardStep, Apply, Query, Check, AskSave, Write, Saved, GiveUp, LateRuns, Others, Boot
<1>3. QED
  BY <1>1, <1>2

-----------------------------------------------------------------------------
(* What was settled is kept. *)

(* The board itself keeps what is settled, unless somebody edits it. *)
Quiet(b) ==
  \/ UNCHANGED store
  \/ \E d \in Config : SaveBegin(b, d)
  \/ SaveWrite(b) \/ SaveEnd(b)
  \/ LegacyBegin(b) \/ LegacyWrite(b) \/ LoadRead(b)
  \/ PullBegin(b) \/ PullFill(b) \/ PullCommit(b) \/ PullEnd(b)
  \/ Restart(b, flash[b])

LEMMA QuietKeeps ==
  ASSUME StoreInv, NEW b \in Board, Quiet(b), NEW f \in Field, NEW v, Kept(b, f, v)
  PROVE  Kept(b, f, v)'
<1>1. StoreTypeOK /\ BoardOK(b)
  BY DEF StoreInv
<1>2. CASE UNCHANGED store
  BY <1>2 DEF store, Kept, Saving0
<1>3. ASSUME NEW d \in Config, SaveBegin(b, d) PROVE Kept(b, f, v)'
  <2>1. config[b] = d /\ core1[b] # "saving"
    BY <1>3 DEF SaveBegin, MaySave, Locked
  <2>2. expected'[b] = d /\ flash' = flash /\ config' = config /\ core1' = core1
    BY <1>1, <1>3 DEF SaveBegin, StoreTypeOK
  <2>3. QED
    BY <2>1, <2>2 DEF Kept, Saving0
<1>4. CASE SaveWrite(b)
  <2>1. buffer[b] = Current(expected[b]) /\ Saving0(b)
    BY <1>1, <1>4 DEF SaveWrite, BoardOK, BufferOK, Saving0
  <2>2. buffer[b] # Blank /\ ~buffer[b].old /\ buffer[b].val = expected[b]
    <3>1. expected[b] \in Config
      BY <1>1 DEF StoreTypeOK
    <3>2. buffer[b] \in Image
      BY <2>1, <3>1, CurrentIsImage
    <3>3. buffer[b] # Blank
      BY <3>2, StoreAssumption
    <3>4. ~buffer[b].old /\ buffer[b].val = expected[b]
      BY <2>1 DEF Current
    <3>5. QED
      BY <3>3, <3>4
  <2>3. /\ flash'[b] = buffer[b] /\ config' = config /\ expected' = expected
        /\ core1' = core1 /\ buffer' = buffer
    BY <1>1, <1>4 DEF SaveWrite, StoreTypeOK
  <2>4. QED
    BY <2>1, <2>2, <2>3 DEF Kept
<1>5. CASE SaveEnd(b)
  BY <1>1, <1>5 DEF SaveEnd, StoreTypeOK, Kept, Saving0
<1>6. CASE LegacyBegin(b)
  <2>1. ~Saving0(b)
    BY <1>6 DEF LegacyBegin, Locked, Saving0
  <2>2. /\ buffer'[b] = Current(config[b]) /\ flash' = flash /\ config' = config
        /\ core0' = core0 /\ expected' = expected
    BY <1>1, <1>6 DEF LegacyBegin, StoreTypeOK
  <2>3. ~buffer'[b].old /\ buffer'[b].val = config[b]
    BY <2>2 DEF Current
  <2>4. QED
    BY <2>1, <2>2, <2>3 DEF Kept, Saving0
<1>7. CASE LegacyWrite(b)
  <2>1. core1[b] = "saving" /\ buffer[b] \in Image
    BY <1>7, WrittenIsImage DEF LegacyWrite
  <2>2. /\ flash'[b] = buffer[b] /\ config' = config /\ core0' = core0
        /\ expected' = expected /\ core1'[b] = "none"
    BY <1>1, <1>7 DEF LegacyWrite, StoreTypeOK
  <2>3. QED
    BY <2>1, <2>2, StoreAssumption DEF Kept, Saving0
<1>8. CASE LoadRead(b)
  BY <1>1, <1>8 DEF LoadRead, StoreTypeOK, Kept, Saving0
<1>9. CASE PullBegin(b) \/ PullFill(b) \/ PullCommit(b) \/ PullEnd(b)
  <2>1. core1[b] = "none"
    BY <1>9 DEF PullBegin, PullFill, PullCommit, PullEnd
  <2>2. /\ flash' = flash /\ config' = config /\ core0' = core0 /\ expected' = expected
        /\ core1' = core1
    BY <1>9 DEF PullBegin, PullFill, PullCommit, PullEnd
  <2>3. QED
    BY <2>1, <2>2 DEF Kept, Saving0
<1>10. CASE Restart(b, flash[b])
  <2>1. flash[b] # Blank /\ ~flash[b].old /\ flash[b].val[f] = v
    BY DEF Kept
  <2>2. Loaded(flash[b]) = flash[b].val
    BY <2>1 DEF Loaded
  <2>3. /\ config'[b] = Loaded(flash[b]) /\ flash'[b] = flash[b]
        /\ core0'[b] = "none" /\ core1'[b] = "none"
    BY <1>1, <1>10, <2>1 DEF Restart, StoreTypeOK
  <2>4. QED
    BY <2>1, <2>2, <2>3 DEF Kept, Saving0
<1>11. QED
  BY <1>2, <1>3, <1>4, <1>5, <1>6, <1>7, <1>8, <1>9, <1>10 DEF Quiet

(* A step forgets what was settled, keeps it, or settles it. *)
SureStep(b) ==
  \/ sure' = [sure EXCEPT ![b] = NotSure]
  \/ sure' = sure /\ Quiet(b)
  \/ /\ heeded[b] /\ SaveEnd(b) /\ SaveGood(b)
     /\ sure' = [sure EXCEPT ![b] = Settled]

LEMMA SaveIsQuiet ==
  ASSUME StoreInv, NEW b \in Board, NEW d, SaveBegin(b, d)
  PROVE  Quiet(b)
<1>1. d = config[b]
  BY DEF SaveBegin, MaySave
<1>2. d \in Config
  BY <1>1 DEF StoreInv, StoreTypeOK
<1>3. QED
  BY <1>2 DEF Quiet

LEMMA BoardSure ==
  ASSUME PageIInv, NEW b \in Board, BoardStep(b)
  PROVE  SureStep(b)
<1>1. StoreInv /\ sure \in [Board -> [Field -> Value \cup {None}]]
  BY DEF PageIInv, Flags
<1>2. CASE Apply(b)
  BY <1>2 DEF Apply, Unsure, SureStep, Quiet
<1>3. CASE Query(b) \/ Check(b) \/ GiveUp(b)
  BY <1>3 DEF Query, Check, GiveUp, SureStep, Quiet
<1>4. CASE AskSave(b)
  BY <1>1, <1>4, SaveIsQuiet DEF AskSave, SureStep, Quiet
<1>5. CASE Write(b)
  BY <1>5 DEF Write, SureStep, Quiet
<1>6. CASE Saved(b)
  <2>1. SaveEnd(b)
    BY <1>6 DEF Saved
  <2>2. CASE heeded[b] /\ SaveGood(b)
    BY <1>6, <2>1, <2>2 DEF Saved, SureStep
  <2>3. CASE ~(heeded[b] /\ SaveGood(b))
    <3>1. sure' = sure
      BY <1>1, <1>6, <2>3 DEF Saved
    <3>2. QED
      BY <2>1, <3>1 DEF SureStep, Quiet
  <2>4. QED
    BY <2>2, <2>3
<1>7. CASE LateRuns(b)
  BY <1>1, <1>7, SaveIsQuiet DEF LateRuns, Unsure, SureStep, Quiet
<1>8. CASE Others(b)
  BY <1>8 DEF Others, Unsure, SureStep, Quiet
<1>9. CASE Boot(b)
  <2>1. PICK left \in {flash[b], Blank} :
          /\ Restart(b, left)
          /\ IF left = flash[b] THEN UNCHANGED sure ELSE Unsure(b)
    BY <1>9 DEF Boot
  <2>2. CASE left = flash[b]
    BY <2>1, <2>2 DEF SureStep, Quiet
  <2>3. CASE left # flash[b]
    BY <2>1, <2>3 DEF SureStep, Unsure
  <2>4. QED
    BY <2>2, <2>3
<1>10. QED
  BY <1>2, <1>3, <1>4, <1>5, <1>6, <1>7, <1>8, <1>9 DEF BoardStep

(* The save that the page waits for, if it is good, has written what the   *)
(* form showed for every field that was tried.                             *)
LEMMA SettledIsKept ==
  ASSUME PageIInv, NEW b \in Board, heeded[b], SaveEnd(b), SaveGood(b)
  PROVE  /\ Settled \in [Field -> Value \cup {None}]
         /\ \A f \in Field, v \in Value : Settled[f] = v => Kept(b, f, v)'
<1>1. Handler(page) /\ FormOK /\ HeedOK(b) /\ StoreTypeOK /\ BoardOK(b)
  BY DEF PageIInv, StoreInv
<1>2. /\ page.stage = "save" /\ Saving0(b) /\ expected[b] = page.seen[b]
      /\ tried \subseteq page.plan /\ page.goal \in Config
  BY <1>1 DEF HeedOK, Handler, Todo, FormOK
<1>3. Settled \in [Field -> Value \cup {None}]
  BY <1>2 DEF Settled, Config
<1>4. ASSUME NEW f \in Field, NEW v \in Value, Settled[f] = v PROVE Kept(b, f, v)'
  <2>1. f \in tried /\ v = page.goal[f]
    BY <1>4, PageAssumption DEF Settled
  <2>2. page.seen[b][f] = page.goal[f]
    BY <1>1, <1>2, <2>1 DEF Handler, Checked, Agreed
  <2>3. flash[b] = Current(expected[b]) /\ config[b] = expected[b] /\ core1[b] # "saving"
    BY <1>1, <1>2 DEF SaveGood, BoardOK, BufferOK, SavesExclude
  <2>4. flash[b] # Blank
    BY <1>1, <2>3, CurrentIsImage, StoreAssumption DEF StoreTypeOK
  <2>5. ~flash[b].old /\ flash[b].val = expected[b]
    BY <2>3 DEF Current
  <2>6. core0'[b] = "none" /\ flash' = flash /\ config' = config /\ core1' = core1
    BY <1>1 DEF SaveEnd, StoreTypeOK
  <2>7. v = expected[b][f]
    BY <1>2, <2>1, <2>2
  <2>8. QED
    BY <2>3, <2>4, <2>5, <2>6, <2>7 DEF Kept, Saving0
<1>5. QED
  BY <1>3, <1>4

LEMMA BoardKeepsSure ==
  ASSUME PageIInv, NEW b \in Board, BoardStep(b), NEW c \in Board
  PROVE  sure' \in [Board -> [Field -> Value \cup {None}]] /\ SureOK(c)'
<1>1. StoreInv /\ sure \in [Board -> [Field -> Value \cup {None}]] /\ SureOK(c)
  BY DEF PageIInv, Flags
<1>2. NotSure \in [Field -> Value \cup {None}] /\ \A f \in Field : NotSure[f] = None
  BY DEF NotSure
<1>3. SureStep(b)
  BY BoardSure
<1>4. sure' \in [Board -> [Field -> Value \cup {None}]]
  BY <1>1, <1>2, <1>3, SettledIsKept DEF SureStep
<1>5. CASE c # b
  <2>1. sure'[c] = sure[c]
    BY <1>1, <1>3, <1>5 DEF SureStep
  <2>2. Untouched(c)
    BY <1>5, BoardUntouched
  <2>3. SureOK(c)'
    BY <1>1, <2>1, <2>2 DEF SureOK, Kept, Saving0, Untouched
  <2>4. QED
    BY <1>4, <2>3
<1>6. CASE c = b
  <2>1. CASE sure' = [sure EXCEPT ![b] = NotSure]
    <3>1. \A f \in Field : sure'[b][f] = None
      BY <1>1, <1>2, <2>1
    <3>2. QED
      BY <1>4, <1>6, <3>1 DEF SureOK
  <2>2. CASE sure' = sure /\ Quiet(b)
    <3>1. ASSUME NEW f \in Field, sure'[b][f] # None PROVE Kept(b, f, sure[b][f])'
      <4>1. Kept(b, f, sure[b][f])
        BY <1>1, <1>6, <2>2, <3>1 DEF SureOK
      <4>2. \A v : Kept(b, f, v) => Kept(b, f, v)'
        BY <1>1, <2>2, QuietKeeps
      <4>3. QED
        BY <2>2, <4>1, <4>2 DEF Kept, Saving0
    <3>2. QED
      BY <1>4, <1>6, <3>1 DEF SureOK
  <2>3. CASE heeded[b] /\ SaveEnd(b) /\ SaveGood(b) /\ sure' = [sure EXCEPT ![b] = Settled]
    <3>1. sure'[b] = Settled
      BY <1>1, <2>3
    <3>2. ASSUME NEW f \in Field, sure'[b][f] # None PROVE Kept(b, f, sure[b][f])'
      <4>1. PICK v \in Value : v = sure'[b][f]
        BY <1>4, <3>2
      <4>2. Kept(b, f, v)'
        BY <2>3, <3>1, <4>1, SettledIsKept
      <4>3. QED
        BY <4>1, <4>2 DEF Kept
    <3>3. QED
      BY <1>4, <1>6, <3>2 DEF SureOK
  <2>4. QED
    BY <1>3, <2>1, <2>2, <2>3 DEF SureStep
<1>7. QED
  BY <1>5, <1>6

-----------------------------------------------------------------------------
(* The invariant holds at the start, and every step keeps it. *)

LEMMA PageInitial == Init => PageIInv
<1>1. SUFFICES ASSUME Init PROVE PageIInv
  OBVIOUS
<1>2. StoreInv
  BY <1>1, StoreInitial DEF Init
<1>3. Flags
  BY <1>1 DEF Init, Flags, NotSure
<1>4. Handler(page) /\ page.plan = {} /\ ~page.saving
  BY <1>1, IdleHandler DEF Init
<1>5. FormOK
  BY <1>1, <1>4, StoreAssumption DEF Init, FormOK
<1>6. ASSUME NEW b \in Board PROVE HeedOK(b) /\ LateOK(b) /\ SureOK(b)
  BY <1>1, <1>6 DEF Init, HeedOK, LateOK, SureOK, NotSure
<1>7. QED
  BY <1>2, <1>3, <1>4, <1>5, <1>6 DEF PageIInv

LEMMA PageStep == PageIInv /\ [Next]_vars => PageIInv'
<1>1. SUFFICES ASSUME PageIInv, [Next]_vars PROVE PageIInv'
  OBVIOUS
<1>2. StoreInv'
  BY <1>1, StorePart, StoreStep DEF PageIInv
<1>3. CASE UserStep
  <2>1. UNCHANGED store /\ UNCHANGED <<late, heeded, sure>>
    BY <1>3, UserStepsElsewhere
  <2>2. Flags'
    BY <1>1, <2>1 DEF PageIInv, Flags
  <2>3. Handler(page') /\ FormOK'
    BY <1>1, <1>3, UserKeepsForm
  <2>4. ASSUME NEW c \in Board PROVE HeedOK(c)' /\ LateOK(c)' /\ SureOK(c)'
    <3>1. HeedOK(c)'
      BY <1>1, <1>3, UserKeepsHeed
    <3>2. LateOK(c) /\ SureOK(c)
      BY <1>1 DEF PageIInv
    <3>3. QED
      BY <2>1, <3>1, <3>2 DEF LateOK, SureOK, Kept, Saving0, store
  <2>5. QED
    BY <1>2, <2>2, <2>3, <2>4 DEF PageIInv
<1>4. ASSUME NEW b \in Board, BoardStep(b) PROVE PageIInv'
  <2>1. Handler(page') /\ FormOK'
    BY <1>1, <1>4, BoardKeepsForm
  <2>2. ASSUME NEW c \in Board PROVE HeedOK(c)' /\ LateOK(c)' /\ SureOK(c)'
    BY <1>1, <1>4, BoardKeepsHeed, BoardKeepsLate, BoardKeepsSure
  <2>3. Flags'
    BY <1>1, <1>4, BoardKeepsHeeded, BoardKeepsLate, BoardKeepsSure DEF Flags
  <2>4. QED
    BY <1>2, <2>1, <2>2, <2>3 DEF PageIInv
<1>5. CASE UNCHANGED vars
  BY <1>1, <1>2, <1>5 DEF vars, store, form, PageIInv, Flags, FormOK, HeedOK, LateOK, SureOK,
                          Kept, Saving0
<1>6. QED
  BY <1>1, <1>3, <1>4, <1>5, NextIs

-----------------------------------------------------------------------------
(* The invariant of the page and the boards it configures: what each stage *)
(* of a save has established, whose save the page waits for, and what a    *)
(* save under way is going to write.                                       *)
THEOREM PageInvariance == Spec => []PageIInv
  BY PageInitial, PageStep, PTL DEF Spec

(* The page uses the store as ConfigStore says: the confirmed requests,    *)
(* the late ones, the other writers, the updater and restarts are steps of *)
(* the store, or leave it alone.                                           *)
THEOREM PageUsesStore == Spec => StoreSpec
<1>1. Init => StoreInit
  BY DEF Init
<1>2. QED
  BY <1>1, StorePart, PageInvariance, PTL DEF Spec, StoreSpec

(* The form, the edits the page keeps track of, its handler and the        *)
(* boards' settings have their types, for every number of user actions.    *)
THEOREM PageTypeCorrect == Spec => []PageTypeOK
<1>1. PageIInv => PageTypeOK
  <2>1. SUFFICES ASSUME PageIInv PROVE PageTypeOK
    OBVIOUS
  <2>2. page \in PageRec /\ Todo(page) /\ FormOK /\ Flags /\ StoreTypeOK
    BY <2>1 DEF PageIInv, Handler, StoreInv
  <2>3. page.stage \in Stage /\ page.todo \subseteq page.plan
    BY <2>2, HandlerFields DEF Todo
  <2>4. QED
    BY <2>2, <2>3 DEF PageTypeOK, FormOK, Flags, Stage
<1>2. QED
  BY <1>1, PageInvariance, PTL

(* What a board has confirmed as saved is what the form showed for every   *)
(* field tried, and stays in flash and in RAM until somebody else changes  *)
(* the settings.                                                           *)
THEOREM SavesAreKept == Spec => []SavedIsKept
<1>1. PageIInv => SavedIsKept
  BY DEF PageIInv, SureOK, Kept, SavedIsKept
<1>2. QED
  BY <1>1, PageInvariance, PTL

(* The page buffer has one user at a time with the page at work as well.   *)
THEOREM PageBufferIsExclusive == Spec => []BufferHasOneUser
  BY PageUsesStore, BufferIsExclusive, PTL

=============================================================================
