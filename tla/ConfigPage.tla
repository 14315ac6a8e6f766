----------------------------- MODULE ConfigPage ------------------------------
(***************************************************************************)
(* The configuration page (script.js) and the settings of both boards.     *)
(* To save, the page applies every edit to both boards, asks both for the  *)
(* digest of their settings, checks every edit against that digest, and    *)
(* has both write flash if the digest is still the same.  Its requests     *)
(* behave as ConfirmedCall says: a board decides each at most once, and    *)
(* the page hears the decision, or gives up and may be overtaken by it.    *)
(***************************************************************************)
EXTENDS ConfigStore, FiniteSetsExt

CONSTANTS
  Bridge,     \* the board whose host shows the page
  None,       \* no value, no request
  MaxEdits,   \* bound: what the user does
  MaxEvents   \* bound: other writers, wipes, transfers, restarts, lost answers

ASSUME PageAssumption ==
  /\ Board = {0, 1} /\ Bridge \in Board
  /\ Field \subseteq Nat /\ None \notin Value
  /\ MaxEdits \in Nat /\ MaxEvents \in Nat

VARIABLES
  want,       \* want[f]: what the form shows
  base,       \* base[f]: fetched-value
  unconf,     \* unconfirmedConfigEdits
  tried,      \* attemptedConfigEdits
  page,       \* the handler that runs
  late,       \* late[b]: a request to b the page has given up, undecided yet
  heeded,     \* heeded[b]: the page waits for the save that b is executing
  sure,       \* sure[b][f]: what b's last confirmed save settled (history)
  edits,      \* what the user has done
  events      \* what the others have done

form == <<want, base, unconf, tried>>
bounds == <<edits, events>>
vars == <<store, form, page, late, heeded, sure, bounds>>

Idle == [stage |-> "idle", saving |-> FALSE, plan |-> {}, todo |-> {}, role |-> 0, good |-> TRUE,
         goal |-> None, applied |-> [b \in Board |-> None], seen |-> [b \in Board |-> None]]

NotSure == [f \in Field |-> None]

Init ==
  /\ StoreInit
  /\ want = Default /\ base = Default
  /\ unconf = {} /\ tried = {}
  /\ page = Idle
  /\ late = [b \in Board |-> None]
  /\ heeded = [b \in Board |-> FALSE]
  /\ sure = [b \in Board |-> NotSure]
  /\ edits = 0 /\ events = 0

PageTypeOK ==
  /\ StoreTypeOK
  /\ want \in Config /\ base \in Config
  /\ unconf \subseteq Field /\ tried \subseteq unconf
  /\ page.stage \in {"idle", "apply", "query", "check", "save"}
  /\ page.todo \subseteq page.plan /\ page.plan \subseteq unconf
  /\ heeded \in [Board -> BOOLEAN]
  /\ sure \in [Board -> [Field -> Value \cup {None}]]

-----------------------------------------------------------------------------
(* The page. *)

Edit == edits < MaxEdits /\ edits' = edits + 1
Event == events < MaxEvents /\ events' = events + 1

UserChanges(f, v) ==
  /\ want[f] # v /\ Edit
  /\ want' = [want EXCEPT ![f] = v]
  /\ UNCHANGED <<store, base, unconf, tried, page, late, heeded, sure, events>>

(* updateElement: a value of the connected board, read with the others.    *)
Read(f) ==
  /\ f \notin unconf /\ core0[Bridge] # "off" /\ Edit
  /\ base' = [base EXCEPT ![f] = config[Bridge][f]]
  /\ want' = [want EXCEPT ![f] = config[Bridge][f]]
  /\ UNCHANGED <<store, unconf, tried, page, late, heeded, sure, events>>

(* forgetUnsentRevertedEdit *)
Reverted == {f \in unconf : f \notin tried /\ base[f] = want[f]}

(* Mutant: what both boards have applied is not sent again. *)
PlannedByDifference == {f \in Field : base[f] # want[f]}

(* planConfigurationEdits *)
Planned == {f \in Field : f \in unconf \ Reverted \/ base[f] # want[f]}

(* valueChangedHandler with nothing to send *)
Forget(f) ==
  /\ page.stage = "idle" /\ f \in Reverted /\ Edit
  /\ unconf' = unconf \ {f}
  /\ UNCHANGED <<store, want, base, tried, page, late, heeded, sure, events>>

(* Mutant: rememberConfigurationEdits is forgotten. *)
RememberNothing(fields, saving) == IF saving THEN unconf \ Reverted ELSE unconf

(* planConfigurationEdits forgets, rememberConfigurationEdits remembers. *)
Remember(fields, saving) == (IF saving THEN unconf \ Reverted ELSE unconf) \cup fields

(* saveHandler, or valueChangedHandler for one field, as far as the        *)
(* capability probes, which may fail: nothing has been sent then.          *)
Begin(fields, saving) ==
  /\ page.stage = "idle" /\ Edit
  /\ unconf' = Remember(fields, saving)
  /\ \/ /\ page' = [Idle EXCEPT !.stage = IF fields = {} THEN "query" ELSE "apply",
                                !.saving = saving, !.plan = fields, !.todo = fields,
                                !.goal = want]
        /\ UNCHANGED events
     \/ page' = Idle /\ Event
  /\ UNCHANGED <<store, want, base, tried, late, heeded, sure>>

Field1 == Min(page.todo)

(* What the handler does next: both boards are asked before the outcome    *)
(* counts.                                                                 *)
After(p, good) ==
  IF p.role = 0 THEN [p EXCEPT !.role = 1, !.good = good]
  ELSE IF ~good THEN Idle
  ELSE LET rest == p.todo \ {Min(p.todo)}
           q == [p EXCEPT !.role = 0]
       IN  CASE p.stage = "apply" /\ rest # {} -> [q EXCEPT !.todo = rest]
             [] p.stage = "apply" /\ rest = {} /\ p.saving -> [q EXCEPT !.stage = "query",
                                                                        !.todo = p.plan]
             [] p.stage = "query" -> [q EXCEPT !.stage = IF p.plan = {} THEN "save" ELSE "check"]
             [] p.stage = "check" /\ rest # {} -> [q EXCEPT !.todo = rest]
             [] p.stage = "check" /\ rest = {} -> [q EXCEPT !.stage = "save", !.todo = {}]
             [] OTHER -> Idle

(* The page has the answer of board page.role, or goes without. *)
Hear(p, ok) ==
  LET good == p.good /\ ok
      done == p.role = 1 /\ good
  IN  /\ page' = After(p, good)
      /\ tried' = IF p.stage = "apply" THEN tried \cup {Field1}
                  ELSE IF p.stage = "save" /\ done THEN tried \ p.plan ELSE tried
      /\ unconf' = IF p.stage = "save" /\ done THEN unconf \ p.plan ELSE unconf
      /\ base' = IF p.stage = "apply" /\ done THEN [base EXCEPT ![Field1] = p.goal[Field1]]
                 ELSE base
      /\ UNCHANGED want

(* The handler is cut off: device gone, or another button. *)
Stop ==
  /\ page' = Idle
  /\ tried' = IF page.stage = "apply" THEN tried \cup {Field1} ELSE tried
  /\ UNCHANGED <<want, base, unconf>>

Unsure(b) == sure' = [sure EXCEPT ![b] = NotSure]

-----------------------------------------------------------------------------
(* A request is answered.  Requests to one board are answered in order. *)

Asked(b, stage) ==
  page.stage = stage /\ page.role = b /\ core0[b] = "none" /\ late[b] = None

Apply(b) ==
  /\ Asked(b, "apply")
  /\ \/ /\ Set(b, Field1, page.goal[Field1]) /\ Unsure(b)
        /\ Hear([page EXCEPT !.applied[b] = config'[b]], TRUE)
     \/ /\ ~MaySet(b) /\ Hear(page, FALSE)
        /\ UNCHANGED <<store, sure>>
  /\ UNCHANGED <<late, heeded, bounds>>

Query(b) ==
  /\ Asked(b, "query")
  /\ Hear([page EXCEPT !.seen[b] = config[b]],
          page.plan # {} => config[b] = page.applied[b])
  /\ UNCHANGED <<store, late, heeded, sure, bounds>>

Check(b) ==
  /\ Asked(b, "check")
  /\ Hear(page, config[b][Field1] = page.goal[Field1] /\ config[b] = page.seen[b])
  /\ UNCHANGED <<store, late, heeded, sure, bounds>>

AskSave(b) ==
  /\ Asked(b, "save")
  /\ \/ /\ SaveBegin(b, page.seen[b])
        /\ heeded' = [heeded EXCEPT ![b] = TRUE]
        /\ UNCHANGED <<form, page>>
     \/ /\ ~MaySave(b, page.seen[b]) /\ Hear(page, FALSE)
        /\ UNCHANGED <<store, heeded>>
  /\ UNCHANGED <<late, sure, bounds>>

Write(b) == SaveWrite(b) /\ UNCHANGED <<form, page, late, heeded, sure, bounds>>

Settled == [f \in Field |-> IF f \in tried THEN page.goal[f] ELSE None]

Saved(b) ==
  /\ SaveEnd(b)
  /\ IF heeded[b]
     THEN /\ Hear(page, SaveGood(b))
          /\ sure' = [sure EXCEPT ![b] = IF SaveGood(b) THEN Settled ELSE @]
     ELSE UNCHANGED <<form, page, sure>>
  /\ heeded' = [heeded EXCEPT ![b] = FALSE]
  /\ UNCHANGED <<late, bounds>>

(* No answer in time: the request is lost, or it is late. *)
GiveUp(b) ==
  /\ page.stage # "idle" /\ page.role = b /\ Event
  /\ \/ late' = late
     \/ /\ page.stage \in {"apply", "save"} /\ ~heeded[b] /\ late[b] = None
        /\ late' = [late EXCEPT ![b] = page]
  /\ heeded' = [heeded EXCEPT ![b] = FALSE]
  /\ Hear(page, FALSE) \/ Stop
  /\ UNCHANGED <<store, sure, edits>>

(* A request the page has given up is carried out after all, before any    *)
(* later one to that board: the link keeps the order, and the service of a *)
(* board works on one transaction at a time.                               *)
LateRuns(b) ==
  /\ late[b] # None /\ core0[b] = "none"
  /\ LET p == late[b] IN
     \/ p.stage = "apply" /\ Set(b, Min(p.todo), p.goal[Min(p.todo)]) /\ Unsure(b)
     \/ p.stage = "save" /\ SaveBegin(b, p.seen[b]) /\ UNCHANGED sure
     \/ UNCHANGED <<store, sure>>
  /\ late' = [late EXCEPT ![b] = None]
  /\ UNCHANGED <<form, page, heeded, bounds>>

-----------------------------------------------------------------------------
(* The rest of the board. *)

Others(b) ==
  /\ \/ /\ \/ \E f \in Field, v \in Value : LocalEdit(b, f, v) /\ config[b][f] # v
           \/ Wipe(b)
        /\ Event /\ Unsure(b)
     \/ (LegacyBegin(b) \/ PullBegin(b)) /\ Event /\ UNCHANGED sure
     \/ LoadPublish(b) /\ Unsure(b) /\ UNCHANGED events
     \/ LegacyWrite(b) /\ UNCHANGED <<sure, events>>
     \/ LoadRead(b) /\ UNCHANGED <<sure, events>>
     \/ (PullFill(b) \/ PullCommit(b) \/ PullEnd(b)) /\ UNCHANGED <<sure, events>>
  /\ UNCHANGED <<form, page, late, heeded, edits>>

(* A board starts or starts again.  A page at its host is disconnected;    *)
(* one that waits for its save waits in vain.  A power cut in the middle   *)
(* of a flash write erases what was saved: config_save_confirmed says that *)
(* it does not confirm "power-loss safety".                                *)
Boot(b) ==
  /\ \E left \in {flash[b], Blank} :
       /\ Restart(b, left)
       /\ IF left = flash[b] THEN UNCHANGED sure ELSE Unsure(b)
  /\ IF core0[b] = "off" THEN UNCHANGED events ELSE Event
  /\ IF page.stage = "idle" THEN UNCHANGED <<form, page>>
     ELSE IF b = Bridge THEN Stop
     ELSE IF heeded[b] THEN Hear(page, FALSE)
     ELSE UNCHANGED <<form, page>>
  /\ heeded' = [c \in Board |-> heeded[c] /\ c # b /\ b # Bridge]
  /\ UNCHANGED <<late, edits>>

Next ==
  \/ \E f \in Field :
       \/ \E v \in Value : UserChanges(f, v)
       \/ Read(f)
       \/ Forget(f)
       \/ f \in Planned /\ Begin({f}, FALSE)
  \/ Begin(Planned, TRUE)
  \/ \E b \in Board :
       \/ Apply(b) \/ Query(b) \/ Check(b) \/ AskSave(b) \/ Write(b) \/ Saved(b)
       \/ GiveUp(b) \/ LateRuns(b) \/ Others(b) \/ Boot(b)

Spec == Init /\ [][Next]_vars

-----------------------------------------------------------------------------
(* Properties. *)

(* What a board has confirmed as saved is what the form showed for every   *)
(* field the page has tried to change since the last success, and it is in *)
(* flash and in RAM, over restarts, until somebody else changes the        *)
(* settings or power fails in the middle of a later flash write, which     *)
(* leaves the sector erased.  Edits that came in meanwhile, a board that   *)
(* rebooted between two edits, an answer lost and a request overtaking the *)
(* next one are found by the digests and the checks.                       *)
SavedIsKept ==
  \A b \in Board, f \in Field :
    sure[b][f] # None
      => /\ flash[b] # Blank /\ flash[b].val[f] = sure[b][f]
         /\ config[b][f] = sure[b][f]
=============================================================================
