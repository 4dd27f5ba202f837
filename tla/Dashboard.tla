----------------------------- MODULE Dashboard ------------------------------
(***************************************************************************)
(* The administration dashboard: one screen over a fixed snapshot, opened  *)
(* from the chat, that ends with the first action the user confirms.       *)
(*                                                                         *)
(* A key either acts at once or opens an overlay: a picker of providers, a *)
(* list of model profiles, an editor, a confirmation.  Keys mean different *)
(* things in each overlay, and an action must be about the row the user    *)
(* chose there, never about a default.  The terminal is taken over before  *)
(* the first frame and must be given back on every way out.                *)
(***************************************************************************)
EXTENDS Integers, Sequences, FiniteSets, SequencesExt

CONSTANTS Snapshots,   \* the snapshots the dashboard may be opened with
          Numbers,     \* what the text of a number field may stand for
          MaxKeys,     \* how many keys the user presses
          None

(***************************************************************************)
(* A snapshot: the task on screen or None; providers, a sequence of        *)
(* [provider, enabled]; drafts, the usage figures of some providers        *)
(* ([used, limit, remaining]); profiles, a sequence of [model, effort,     *)
(* customized]; auto, whether automatic routing is on.                     *)
(***************************************************************************)

Efforts == <<"low", "medium", "high">>

Purposes == {"manual", "toggle", "handover", "usage"}

UsageFields == <<"used", "limit", "remaining", "confirm">>

ProfileFields == <<"model", "effort", "confirm">>

Keys == {"a", "m", "e", "p", "r", "c", "h", "u", "f", "q", "esc", "up", "down", "1",
         "enter", "delete", "y", "n", "left", "right", "backspace", "text"}

VARIABLES pc,          \* "closed", "raw", "open", "returned" or "failed"
          raw, alt,    \* the terminal: raw mode, alternate screen
          snapshot,
          picker,      \* [purpose, selected] or None
          list,        \* [selected] or None: the list of profiles
          editor,      \* [row, model, effort, field] or None: one profile
          reset,       \* the row whose reset is to be confirmed, or None
          usage,       \* [provider, used, limit, remaining, field] or None
          action,      \* the action the dashboard returned
          moved,       \* did the user choose a row since the overlay opened?
          keys

vars == <<pc, raw, alt, snapshot, picker, list, editor, reset, usage, action, moved, keys>>

overlays == <<picker, list, editor, reset, usage>>

----------------------------------------------------------------------------
(* The terminal                                                            *)

\* TerminalGuard::drop: what was entered is left again.
GiveBack == raw' = FALSE /\ alt' = FALSE

\* enable_raw_mode, the first half of TerminalGuard::enter
EnableRaw ==
  /\ pc = "closed"
  /\ \/ raw' = TRUE /\ pc' = "raw" /\ UNCHANGED alt
     \/ pc' = "failed" /\ UNCHANGED <<raw, alt>>
  /\ UNCHANGED <<snapshot, picker, list, editor, reset, usage, action, moved, keys>>

\* enter_alternate_screen: when it fails the guard leaves raw mode.
EnterAlternate ==
  /\ pc = "raw"
  /\ \/ alt' = TRUE /\ pc' = "open" /\ UNCHANGED raw
     \/ pc' = "failed" /\ GiveBack
  /\ UNCHANGED <<snapshot, picker, list, editor, reset, usage, action, moved, keys>>

\* run returns an error: drawing or reading failed.
TerminalError ==
  /\ pc = "open"
  /\ pc' = "failed"
  /\ action' = [kind |-> "terminal_error"]
  /\ GiveBack
  /\ UNCHANGED <<snapshot, picker, list, editor, reset, usage, moved, keys>>

----------------------------------------------------------------------------
(* Helpers of the key handlers                                             *)

\* run returns the first action.
Return(a) == action' = a /\ pc' = "returned" /\ GiveBack

\* A handler's error (InvalidControlInput) ends the dashboard.
Fail == action' = [kind |-> "invalid_input"] /\ pc' = "failed" /\ GiveBack

Stay == UNCHANGED <<action, pc, raw, alt>>

\* next_index, over 1 .. len with 0 for no selection
NextIndex(current, len, forward) ==
  CASE current = 0 /\ forward -> 1
    [] current \in {0, 1} /\ ~forward -> len
    [] current > 0 /\ forward -> (current % len) + 1
    [] OTHER -> current - 1

\* Next or previous element of a cycle of fields.
Around(fields, field, forward) ==
  LET i == CHOOSE j \in DOMAIN fields : fields[j] = field IN
  fields[NextIndex(i, Len(fields), forward)]

\* cycle_effort: an unknown effort becomes medium.
CycleEffort(current, forward) ==
  IF current \in Range(Efforts) THEN Around(Efforts, current, forward) ELSE "medium"

PickerCandidates(purpose) ==
  SelectSeq(snapshot.providers,
    LAMBDA o : CASE purpose \in {"manual", "handover"} -> o.enabled
                 [] purpose = "toggle" -> TRUE
                 [] OTHER -> o.provider \in DOMAIN snapshot.drafts)


\* No row is selected when a picker opens.
OpenPicker(purpose) ==
  IF PickerCandidates(purpose) = <<>> THEN UNCHANGED <<picker, moved>>
  ELSE picker' = [purpose |-> purpose, selected |-> 0] /\ moved' = FALSE

\* usage_override_from_draft: figures that contradict each other are refused.
Given(d) == {f \in {"used", "limit", "remaining"} : d[f] # None}
UsageOverrideAccepted(d) ==
  /\ \A f \in Given(d) : d[f] \in Int /\ d[f] >= 0
  /\ Given(d) \cap {"used", "remaining"} # {}
  /\ "limit" \in Given(d) =>
       /\ d.limit > 0
       /\ \A f \in Given(d) : d[f] <= d.limit
       /\ Given(d) = {"used", "limit", "remaining"} => d.used + d.remaining = d.limit

----------------------------------------------------------------------------
(* One handler per overlay                                                 *)

\* The keys of the plain screen
Global(k) ==
  /\ picker = None /\ list = None /\ editor = None /\ reset = None /\ usage = None
  /\ CASE k \in {"m", "e", "h", "u"} ->
            /\ OpenPicker(CASE k = "m" -> "manual" [] k = "e" -> "toggle" [] k = "h" -> "handover" [] OTHER -> "usage")
            /\ Stay /\ UNCHANGED <<list, editor, reset, usage>>
       [] k = "f" /\ snapshot.profiles # <<>> ->
            list' = [selected |-> 0] /\ moved' = FALSE /\ Stay /\ UNCHANGED <<picker, editor, reset, usage>>
       [] k = "a" -> Return([kind |-> "routing", to |-> ~snapshot.auto]) /\ UNCHANGED <<overlays, moved>>
       [] k \in {"p", "r", "c"} /\ snapshot.task # None ->
            Return([kind |-> "control", to |-> snapshot.task]) /\ UNCHANGED <<overlays, moved>>
       [] k \in {"p", "r", "c"} /\ snapshot.task = None -> Fail /\ UNCHANGED <<overlays, moved>>
       [] k \in {"q", "esc"} -> Return([kind |-> "quit"]) /\ UNCHANGED <<overlays, moved>>
       [] OTHER -> Stay /\ UNCHANGED <<overlays, moved>>

\* action_for_provider, for the provider the picker selected
ActionForProvider(purpose, option) ==
  CASE purpose = "toggle" -> Return([kind |-> "toggle", provider |-> option.provider, to |-> ~option.enabled])
    [] purpose \in {"manual", "handover"} /\ snapshot.task # None ->
         Return([kind |-> purpose, provider |-> option.provider])
    [] OTHER -> Fail

\* Up, down and a digit choose a row.
Chosen(k, selected, len) ==
  CASE k = "down" -> NextIndex(selected, len, TRUE)
    [] k = "up" -> NextIndex(selected, len, FALSE)
    [] OTHER -> 1

PickerKey(k) ==
  LET candidates == PickerCandidates(picker.purpose)
      option == candidates[picker.selected] IN
  /\ reset = None /\ editor = None /\ list = None /\ usage = None /\ picker # None
  /\ CASE k = "esc" -> picker' = None /\ Stay /\ UNCHANGED <<usage, moved>>
       [] k \in {"up", "down", "1"} ->
            /\ picker' = [picker EXCEPT !.selected = Chosen(k, @, Len(candidates))]
            /\ moved' = TRUE
            /\ Stay /\ UNCHANGED usage
       [] k = "enter" /\ picker.selected # 0 /\ picker.purpose = "usage" ->
            /\ picker' = None
            /\ usage' = [provider |-> option.provider, field |-> "used",
                         used |-> snapshot.drafts[option.provider].used,
                         limit |-> snapshot.drafts[option.provider].limit,
                         remaining |-> snapshot.drafts[option.provider].remaining]
            /\ Stay /\ UNCHANGED moved
       [] k = "enter" /\ picker.selected # 0 /\ picker.purpose # "usage" ->
            ActionForProvider(picker.purpose, option) /\ picker' = None /\ UNCHANGED <<usage, moved>>
       [] k = "q" -> Return([kind |-> "quit"]) /\ UNCHANGED <<picker, usage, moved>>
       [] OTHER -> Stay /\ UNCHANGED <<picker, usage, moved>>
  /\ UNCHANGED <<list, editor, reset>>

UsageKey(k) ==
  /\ reset = None /\ editor = None /\ list = None /\ usage # None
  /\ CASE k = "esc" -> usage' = None /\ Stay
       [] k \in {"up", "down"} \/ (k = "enter" /\ usage.field # "confirm") ->
            usage' = [usage EXCEPT !.field = Around(UsageFields, @, k # "up")] /\ Stay
       [] k = "delete" /\ usage.field # "confirm" -> usage' = [usage EXCEPT ![usage.field] = None] /\ Stay
       [] k \in {"backspace", "1"} /\ usage.field # "confirm" ->
            (\E v \in Numbers : usage' = [usage EXCEPT ![usage.field] = v]) /\ Stay
       [] k = "enter" /\ usage.field = "confirm" /\ UsageOverrideAccepted(usage) ->
            Return([kind |-> "usage", provider |-> usage.provider]) /\ usage' = None
       [] k = "q" -> Return([kind |-> "quit"]) /\ UNCHANGED usage
       [] OTHER -> Stay /\ UNCHANGED usage
  /\ UNCHANGED <<picker, list, editor, reset, moved>>

ProfileListKey(k) ==
  LET row == snapshot.profiles[list.selected] IN
  /\ reset = None /\ editor = None /\ list # None
  /\ CASE k = "esc" -> list' = None /\ UNCHANGED <<editor, reset, moved>>
       [] k \in {"up", "down", "1"} ->
            /\ list' = [selected |-> Chosen(k, list.selected, Len(snapshot.profiles))]
            /\ moved' = TRUE
            /\ UNCHANGED <<editor, reset>>
       [] k = "enter" /\ list.selected # 0 ->
            /\ editor' = [row |-> list.selected, model |-> row.model, effort |-> row.effort, field |-> "model"]
            /\ UNCHANGED <<list, reset, moved>>
       [] k = "delete" /\ list.selected # 0 /\ row.customized ->
            reset' = list.selected /\ UNCHANGED <<list, editor, moved>>
       [] OTHER -> UNCHANGED <<list, editor, reset, moved>>
  /\ Stay
  /\ UNCHANGED <<picker, usage>>

ResetKey(k) ==
  /\ reset # None
  /\ CASE k = "y" -> Return([kind |-> "reset", row |-> reset]) /\ reset' = None /\ list' = None
       [] k \in {"n", "esc", "enter"} -> reset' = None /\ Stay /\ UNCHANGED list
       [] OTHER -> Stay /\ UNCHANGED <<reset, list>>
  /\ UNCHANGED <<picker, editor, usage, moved>>

ProfileEditorKey(k) ==
  /\ reset = None /\ editor # None
  /\ CASE k = "esc" -> editor' = None /\ Stay /\ UNCHANGED list
       [] k \in {"up", "down"} \/ (k = "enter" /\ editor.field # "confirm") ->
            editor' = [editor EXCEPT !.field = Around(ProfileFields, @, k # "up")] /\ Stay /\ UNCHANGED list
       [] k \in {"left", "right"} /\ editor.field = "effort" ->
            editor' = [editor EXCEPT !.effort = CycleEffort(@, k # "left")] /\ Stay /\ UNCHANGED list
       [] k \in {"delete", "backspace"} /\ editor.field = "model" ->
            editor' = [editor EXCEPT !.model = ""] /\ Stay /\ UNCHANGED list
       [] k \in {"text", "1", "a", "m", "e", "p", "r", "c", "h", "u", "f", "q", "y", "n"} /\ editor.field = "model" ->
            editor' = [editor EXCEPT !.model = "typed"] /\ Stay /\ UNCHANGED list
       [] k = "enter" /\ editor.field = "confirm" /\ editor.model # "" /\ editor.effort \in Range(Efforts) ->
            Return([kind |-> "profile", row |-> editor.row]) /\ editor' = None /\ list' = None
       [] OTHER -> Stay /\ UNCHANGED <<editor, list>>
  /\ UNCHANGED <<picker, reset, usage, moved>>

\* action_for_key: the innermost overlay gets the key.
Press(k) ==
  /\ pc = "open"
  /\ keys < MaxKeys
  /\ keys' = keys + 1
  /\ \/ ResetKey(k)
     \/ ProfileEditorKey(k)
     \/ ProfileListKey(k)
     \/ UsageKey(k)
     \/ PickerKey(k)
     \/ Global(k)
  /\ UNCHANGED snapshot

\* The chat opens the dashboard again with a new snapshot; after an error the
\* chat itself has ended.
Reopen ==
  /\ pc = "returned"
  /\ pc' = "closed"
  /\ action' = [kind |-> "none"]
  /\ picker' = None /\ list' = None /\ editor' = None /\ reset' = None /\ usage' = None
  /\ snapshot' \in Snapshots
  /\ UNCHANGED <<raw, alt, moved, keys>>

Init ==
  /\ pc = "closed"
  /\ raw = FALSE /\ alt = FALSE
  /\ snapshot \in Snapshots
  /\ picker = None /\ list = None /\ editor = None /\ reset = None /\ usage = None
  /\ action = [kind |-> "none"]
  /\ moved = FALSE
  /\ keys = 0

Next ==
  \/ EnableRaw
  \/ EnterAlternate
  \/ TerminalError
  \/ \E k \in Keys : Press(k)
  \/ Reopen

Spec == Init /\ [][Next]_vars

----------------------------------------------------------------------------
(* Properties                                                              *)

\* An action about a provider or a profile is about the row the user chose in
\* the overlay that is on screen: with no choice there is no such action.
ChosenBeforeAction ==
  pc = "open" /\ pc' = "returned" /\ "provider" \in DOMAIN action' =>
    /\ moved
    /\ \/ picker # None /\ action'.provider = PickerCandidates(picker.purpose)[picker.selected].provider
       \/ usage # None /\ action'.provider = usage.provider

\* Every way out gives the terminal back.
TerminalRestored == pc \in {"returned", "failed", "closed"} => ~raw /\ ~alt

=============================================================================
