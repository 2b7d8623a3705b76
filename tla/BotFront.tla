------------------------------- MODULE BotFront -------------------------------
(***************************************************************************)
(* The front of the Telegram bot (telegram_bot/commands.py, menus.py,      *)
(* settings.py, positions.py, bond_picker.py, middleware.py): who a        *)
(* handler works for, the two dialogs that wait for a text reply, the      *)
(* /parse lock, and the preferences row that every setting rewrites.       *)
(*                                                                         *)
(* aiogram runs every update in a task of its own.  A message passes the   *)
(* filters (run in a thread), then the middlewares, then its handler; a    *)
(* button goes from the filters straight to its handler.                   *)
(***************************************************************************)
EXTENDS Naturals, FiniteSets

CONSTANTS
  TgUsers,       \* Telegram ids of people
  BotId,         \* the Telegram id of the bot itself
  WatchPapers,   \* bonds offered by the picker
  BotTasks,      \* updates handled at once
  MaxPrompts,    \* bound on the dialogs opened
  MaxChanges,    \* bound on the changes of preferences
  MaxLapses      \* bound on the changes of a user's tier

ASSUME BotFrontAssumption ==
  /\ BotId \notin TgUsers /\ "free" \notin BotTasks
  /\ MaxPrompts \in Nat /\ MaxChanges \in Nat /\ MaxLapses \in Nat

VARIABLES
  pendingEdit,      \* [TgUsers -> prompt]: settings awaiting a value
  pendingPosition,  \* [TgUsers -> prompt]: positions awaiting an amount
  isPro,            \* [TgUsers -> BOOLEAN]: get_tier_by_telegram
  lapses,
  prefsRow,         \* [ids -> user_preferences row]; the key is a Telegram id
  positionRow,      \* [ids -> papers held], of the users row of the id
  botAccount,       \* ids with a users row
  botTask,          \* [BotTasks -> what the task does]
  parseLock,        \* the task that holds it, or "free"
  bondsLoaded,      \* db_has_bonds
  prompts,          \* history: dialogs opened, and of whom
  writes,           \* history: [prompt number -> writes its replies made]
  expectedRow,      \* history: the row all accepted changes add up to
  rowOverlapped,    \* history: ids some of whose changes overlapped
  changes

frontVars == <<pendingEdit, pendingPosition, isPro, lapses, prefsRow, positionRow,
               botAccount, botTask, parseLock, bondsLoaded, prompts, writes,
               expectedRow, rowOverlapped, changes>>

ChatIds == TgUsers \cup {BotId}
NoPrompt == 0

\* "strategy" is free text of the user (apply_setting); a name outside the
\* Literal of UserPreferences makes the row unreadable ever after.
Strategies == {"Balanced", "Conservative", "unknown"}
DefaultPrefs == [capital |-> 10, strategy |-> "Balanced", watch |-> {}, version |-> 0]
Readable(row) == row.strategy # "unknown"

BotRests == [pc |-> "rest"]

BotFrontInitWith(lapsesDone, changesDone) ==
  /\ pendingEdit = [u \in TgUsers |-> NoPrompt]
  /\ pendingPosition = [u \in TgUsers |-> NoPrompt]
  /\ isPro = [u \in TgUsers |-> FALSE]
  /\ lapses = lapsesDone
  /\ prefsRow = [i \in ChatIds |-> DefaultPrefs]
  /\ positionRow = [i \in ChatIds |-> {}]
  /\ botAccount = {}
  /\ botTask = [t \in BotTasks |-> BotRests]
  /\ parseLock = "free"
  /\ bondsLoaded = FALSE
  /\ prompts = << >>
  /\ writes = << >>
  /\ expectedRow = [i \in ChatIds |-> DefaultPrefs]
  /\ rowOverlapped = {}
  /\ changes = changesDone

BotFrontInit == BotFrontInitWith(0, 0)

dialogVars == <<pendingEdit, pendingPosition, prompts, writes>>
rowVars == <<prefsRow, expectedRow, rowOverlapped, changes>>
marketVars == <<parseLock, bondsLoaded>>

Unoccupied(t) == botTask[t].pc = "rest"
BotGoes(t, to) == botTask' = [botTask EXCEPT ![t] = to]
BotDone(t) == BotGoes(t, BotRests)

-----------------------------------------------------------------------------
(* Commands and buttons.                                                   *)

\* The commands that leave something behind; the others read and answer.
Writers == {"status", "refer", "alerts", "rebalance", "rebalance_auto"}
AlwaysOpen == {"status", "refer"}                           \* ALLOWED_BEFORE_PARSE
ProOnly == {"alerts", "rebalance", "rebalance_auto"}        \* PRO_COMMANDS
Inline == Writers \ {"status"}                              \* _CMD_HANDLER_NAMES
NeedsPrefs == {"rebalance", "rebalance_auto"}

\* user_id_from_message: a typed command carries its author, but the message
\* under a button was sent by the bot.
ActsFor(u, way) == IF way = "typed" THEN u ELSE BotId

\* From the filters to the answer: ParseLockMiddleware and
\* SubscriptionMiddleware for what is typed, gate_pro_callback for a button.
Passes(u, cmd, way) ==
  /\ way = "typed" => cmd \in AlwaysOpen \/ bondsLoaded
  /\ way = "pressed" => cmd \in Inline
  /\ cmd \in ProOnly => isPro[u]

RunCommand(u, cmd, way) ==
  LET id == ActsFor(u, way)
  IN /\ Passes(u, cmd, way)
     /\ cmd \in NeedsPrefs => Readable(prefsRow[id])
     /\ botAccount' = botAccount \cup {id}
     /\ UNCHANGED <<dialogVars, rowVars, isPro, lapses, positionRow, botTask, marketVars>>

\* cmd_parse: no await lies between locked() and the acquisition.
StartParse(t) ==
  /\ Unoccupied(t)
  /\ parseLock = "free"
  /\ parseLock' = t
  /\ BotGoes(t, [pc |-> "parse"])
  /\ UNCHANGED <<dialogVars, rowVars, isPro, lapses, positionRow, botAccount, bondsLoaded>>

\* A failure of any of the three fetches ends the command; bonds that were
\* stored by then stay.
EndParse(t, stored) ==
  /\ botTask[t].pc = "parse"
  /\ parseLock' = "free"
  /\ bondsLoaded' = (bondsLoaded \/ stored)
  /\ BotDone(t)
  /\ UNCHANGED <<dialogVars, rowVars, isPro, lapses, positionRow, botAccount>>

-----------------------------------------------------------------------------
(* The two dialogs.                                                        *)

Opens(u, pending, prompt) ==
  /\ Cardinality(DOMAIN prompts) < MaxPrompts
  /\ LET n == Cardinality(DOMAIN prompts) + 1
     IN /\ prompts' = [i \in DOMAIN prompts \cup {n} |-> IF i = n THEN prompt ELSE prompts[i]]
        /\ writes' = [i \in DOMAIN writes \cup {n} |-> IF i = n THEN 0 ELSE writes[i]]
        /\ pending' = [pending EXCEPT ![u] = n]

\* cb_edit for the capital; a prompt that was open is forgotten.
PressEdit(u) ==
  /\ Opens(u, pendingEdit, [dialog |-> "edit", user |-> u])
  /\ UNCHANGED <<pendingPosition, rowVars, isPro, lapses, positionRow, botAccount, botTask, marketVars>>

\* cb_edit with "cancel", and /cancel: only the settings dialog.
CancelEdit(u) ==
  /\ pendingEdit[u] # NoPrompt
  /\ pendingEdit' = [pendingEdit EXCEPT ![u] = NoPrompt]
  /\ UNCHANGED <<pendingPosition, prompts, writes, rowVars, isPro, lapses, positionRow, botAccount,
                 botTask, marketVars>>

\* cb_pos_add asks for the tier first and opens the dialog when it has it.
PressAdd(t, u, p) ==
  /\ Unoccupied(t)
  /\ BotGoes(t, [pc |-> "gate", user |-> u, paper |-> p])
  /\ UNCHANGED <<dialogVars, rowVars, isPro, lapses, positionRow, botAccount, marketVars>>

\* _is_pro
GateOpen(u) == isPro[u]

CheckTier(t) ==
  LET u == botTask[t].user
  IN /\ botTask[t].pc = "gate"
     /\ BotDone(t)
     /\ IF GateOpen(u)
        THEN Opens(u, pendingPosition, [dialog |-> "position", user |-> u,
                                        paper |-> botTask[t].paper, asPro |-> isPro[u]])
        ELSE UNCHANGED <<pendingPosition, prompts, writes>>
     /\ UNCHANGED <<pendingEdit, rowVars, isPro, lapses, positionRow, botAccount, marketVars>>

CancelAdd(u) ==
  /\ pendingPosition[u] # NoPrompt
  /\ pendingPosition' = [pendingPosition EXCEPT ![u] = NoPrompt]
  /\ UNCHANGED <<pendingEdit, prompts, writes, rowVars, isPro, lapses, positionRow, botAccount,
                 botTask, marketVars>>

\* cb_pos_del: at once, for those who are Pro.
RemovePosition(u, p) ==
  /\ isPro[u]
  /\ positionRow' = [positionRow EXCEPT ![u] = @ \ {p}]
  /\ botAccount' = botAccount \cup {u}
  /\ UNCHANGED <<dialogVars, rowVars, isPro, lapses, botTask, marketVars>>

\* The filters of a text reply: the settings router comes before positions.
TextReply(t, u, text) ==
  /\ Unoccupied(t)
  /\ \/ /\ pendingEdit[u] # NoPrompt
        /\ BotGoes(t, [pc |-> "reply", dialog |-> "edit", user |-> u, text |-> text])
     \/ /\ pendingEdit[u] = NoPrompt
        /\ pendingPosition[u] # NoPrompt
        /\ BotGoes(t, [pc |-> "reply", dialog |-> "position", user |-> u, text |-> text])
  /\ UNCHANGED <<dialogVars, rowVars, isPro, lapses, positionRow, botAccount, marketVars>>

\* ThrottlingMiddleware drops the message; the dialog stays open.
Throttled(t) ==
  /\ botTask[t].pc = "reply"
  /\ BotDone(t)
  /\ UNCHANGED <<dialogVars, rowVars, isPro, lapses, positionRow, botAccount, marketVars>>

\* A mistake: the handler looks the dialog up and leaves it open.
MutPopped(pending, u) == pending

\* dict.pop; the second of two replies finds nothing and raises KeyError.
Popped(pending, u) == [pending EXCEPT ![u] = NoPrompt]

\* cb_pending_edit, up to the first await of apply_setting.
TakeEdit(t) ==
  LET u == botTask[t].user
      n == pendingEdit[u]
  IN /\ botTask[t].pc = "reply" /\ botTask[t].dialog = "edit"
     /\ pendingEdit' = Popped(pendingEdit, u)
     /\ IF n # NoPrompt /\ botTask[t].text = "number"
        THEN BotGoes(t, [pc |-> "read", id |-> u, prompt |-> n,
                         change |-> [field |-> "capital", value |-> n]])
        ELSE BotDone(t)
     /\ UNCHANGED <<pendingPosition, prompts, writes, rowVars, isPro, lapses, positionRow,
                    botAccount, marketVars>>

\* on_position_amount: the row of the paper gets the amount.
TakeAmount(t) ==
  LET u == botTask[t].user
      n == pendingPosition[u]
  IN /\ botTask[t].pc = "reply" /\ botTask[t].dialog = "position"
     /\ pendingPosition' = Popped(pendingPosition, u)
     /\ IF n # NoPrompt /\ botTask[t].text = "number"
        THEN BotGoes(t, [pc |-> "amount", id |-> u, prompt |-> n])
        ELSE BotDone(t)
     /\ UNCHANGED <<pendingEdit, prompts, writes, rowVars, isPro, lapses, positionRow,
                    botAccount, marketVars>>

StoreAmount(t) ==
  LET n == botTask[t].prompt
      id == botTask[t].id
  IN /\ botTask[t].pc = "amount"
     /\ positionRow' = [positionRow EXCEPT ![id] = @ \cup {prompts[n].paper}]
     /\ botAccount' = botAccount \cup {id}
     /\ writes' = [writes EXCEPT ![n] = @ + 1]
     /\ BotDone(t)
     /\ UNCHANGED <<pendingEdit, pendingPosition, prompts, rowVars, isPro, lapses, marketVars>>

-----------------------------------------------------------------------------
(* The preferences row: read whole, changed in Python, written whole.      *)

\* The id a button or a command changes the row of: callback_query.from_user.
Changer(u) == u

\* cb_preset, cb_setcap, cmd_set, and the watchlist buttons of the picker.
StartChange(t, u, change) ==
  /\ Unoccupied(t)
  /\ changes < MaxChanges
  /\ changes' = changes + 1
  /\ BotGoes(t, [pc |-> "read", id |-> Changer(u), prompt |-> NoPrompt, change |-> change])
  /\ UNCHANGED <<dialogVars, prefsRow, expectedRow, rowOverlapped, isPro, lapses, positionRow,
                 botAccount, marketVars>>

\* get_preferences: an unreadable row raises, and the task is over.
ReadPrefs(t) ==
  LET row == prefsRow[botTask[t].id]
  IN /\ botTask[t].pc = "read"
     /\ IF Readable(row)
        THEN BotGoes(t, [pc |-> "write", id |-> botTask[t].id, prompt |-> botTask[t].prompt,
                         change |-> botTask[t].change, row |-> row])
        ELSE BotDone(t)
     /\ UNCHANGED <<dialogVars, rowVars, isPro, lapses, positionRow, botAccount, marketVars>>

\* apply_setting, cb_preset, add_to_watchlist, remove_from_watchlist.
Changed(row, c) ==
  CASE c.field = "strategy" -> [row EXCEPT !.strategy = c.value]
    [] c.field = "capital"  -> [row EXCEPT !.capital = c.value]
    [] c.field = "watch"    -> [row EXCEPT !.watch = @ \cup {c.value}]
    [] c.field = "unwatch"  -> [row EXCEPT !.watch = @ \ {c.value}]

WithoutVersion(row) == [row EXCEPT !.version = 0]

\* upsert_preferences writes every column; the watchlist only if it changed.
WritePrefs(t) ==
  LET task == botTask[t]
      new == Changed(task.row, task.change)
      now == [new EXCEPT !.version = prefsRow[task.id].version + 1]
      skipped == task.change.field \in {"watch", "unwatch"} /\ new = task.row
  IN /\ task.pc = "write"
     /\ prefsRow' = IF skipped THEN prefsRow ELSE [prefsRow EXCEPT ![task.id] = now]
     /\ expectedRow' = [expectedRow EXCEPT ![task.id] = Changed(@, task.change)]
     /\ rowOverlapped' = IF task.row.version = prefsRow[task.id].version THEN rowOverlapped
                         ELSE rowOverlapped \cup {task.id}
     /\ writes' = IF task.prompt = NoPrompt THEN writes ELSE [writes EXCEPT ![task.prompt] = @ + 1]
     /\ BotDone(t)
     /\ UNCHANGED <<pendingEdit, pendingPosition, prompts, changes, isPro, lapses, positionRow,
                    botAccount, marketVars>>

\* A subscription starts or lapses (Entitlement).
TierChanges(u) ==
  /\ lapses < MaxLapses
  /\ lapses' = lapses + 1
  /\ isPro' = [isPro EXCEPT ![u] = ~@]
  /\ UNCHANGED <<dialogVars, rowVars, positionRow, botAccount, botTask, marketVars>>

\* The process restarts: dialogs, lock and running tasks live in its memory.
BotRestarts ==
  /\ pendingEdit' = [u \in TgUsers |-> NoPrompt]
  /\ pendingPosition' = [u \in TgUsers |-> NoPrompt]
  /\ botTask' = [t \in BotTasks |-> BotRests]
  /\ parseLock' = "free"
  /\ UNCHANGED <<prompts, writes, rowVars, isPro, lapses, positionRow, botAccount, bondsLoaded>>

PrefChanges == {[field |-> "strategy", value |-> s] : s \in Strategies}
           \cup {[field |-> f, value |-> p] : f \in {"watch", "unwatch"}, p \in WatchPapers}

BotFrontNext ==
  \/ \E u \in TgUsers :
       \/ PressEdit(u) \/ CancelEdit(u) \/ CancelAdd(u) \/ TierChanges(u)
       \/ \E p \in WatchPapers : RemovePosition(u, p)
       \/ \E cmd \in Writers, way \in {"typed", "pressed"} : RunCommand(u, cmd, way)
       \/ \E t \in BotTasks :
            \/ \E p \in WatchPapers : PressAdd(t, u, p)
            \/ \E text \in {"number", "other"} : TextReply(t, u, text)
            \/ \E c \in PrefChanges : StartChange(t, u, c)
  \/ \E t \in BotTasks :
       \/ StartParse(t) \/ CheckTier(t) \/ Throttled(t) \/ TakeEdit(t) \/ TakeAmount(t)
       \/ StoreAmount(t) \/ ReadPrefs(t) \/ WritePrefs(t)
       \/ \E stored \in BOOLEAN : EndParse(t, stored)
  \/ BotRestarts

BotFrontSpec == BotFrontInit /\ [][BotFrontNext]_frontVars

-----------------------------------------------------------------------------
(* However updates overlap and the bot restarts: one prompt is answered at *)
(* most once; a position the bot stored is the answer to a prompt for that *)
(* paper, opened for the same user while he was Pro; no preferences or     *)
(* positions are stored under the bot's own id; one parse runs at a time   *)
(* and holds the lock; and a row that no two changes of it overlapped holds *)
(* every change that was accepted.                                         *)
AnsweredAsPro(n, u, p) ==
  /\ prompts[n].dialog = "position" /\ prompts[n].user = u /\ prompts[n].paper = p
  /\ prompts[n].asPro /\ writes[n] = 1

BotFrontSound ==
  /\ \A n \in DOMAIN writes : writes[n] =< 1
  /\ \A u \in TgUsers : \A p \in positionRow[u] : \E n \in DOMAIN prompts : AnsweredAsPro(n, u, p)
  /\ prefsRow[BotId] = DefaultPrefs /\ positionRow[BotId] = {}
  /\ {t \in BotTasks : botTask[t].pc = "parse"} = {parseLock} \ {"free"}
  /\ \A i \in ChatIds \ rowOverlapped : WithoutVersion(prefsRow[i]) = expectedRow[i]
=============================================================================
