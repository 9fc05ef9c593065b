------------------------------ MODULE Keyboard ------------------------------
(***************************************************************************)
(* The boot keyboard driver and its key map.  The completion routine of    *)
(* the interrupt request runs in the FIQ: it finds out which key is new,   *)
(* translates it, switches the locks and calls the handlers of the         *)
(* application.  The LEDs cannot be set there, since that takes a blocking *)
(* message: the application calls USPiKeyboardUpdateLEDs from time to time *)
(* in its own context, which the completion routine interrupts.            *)
(*                                                                         *)
(* A physical key is named after a row of the key map, a code is a string; *)
(* a special key stands for the string that s_KeyStrings gives it.         *)
(***************************************************************************)
EXTENDS Naturals, Sequences, SequencesExt, FiniteSets

CONSTANTS
    Strokes,     \* keys and the set of modifier keys held with each: <<key, mods>>
    PowerUpLEDs, \* sets of LEDs that may be on at power-up
    MaxReports,  \* bound on reports
    MaxKbdCalls  \* bound on calls of the application

VARIABLES
    held,      \* the keyboard: keys that are down, in the order of pressing
    mods,      \*   modifier keys that are down
    news,      \*   there is a change to report
    leds,      \*   LEDs that are on
    urb,       \* m_URB: "armed", then "done" or "failed" until its completion
    report,    \* m_pReportBuffer: [mods, keys]
    lastCode,  \* m_ucLastPhyCode, "0" for none
    locks,     \* m_bCapsLock, m_bNumLock, m_bScrollLock: those that are on
    raw,       \* m_pKeyStatusHandlerRaw is set
    typed,     \* calls of the other handlers
    task,      \* the application: "no", "update", "store", "set"
    mask,      \* the LEDs it sends
    lastLEDs,  \* m_ucLastLEDStatus
    used,      \* <<reports, calls>> so far
    wanted,    \* what the presses should have typed
    parity,    \* locks that have been pressed an odd number of times
    clean,     \* one key at a time, no report lost, no raw handler
    quiet,     \* no lock has changed since UpdateLEDs last looked
    told       \* no message was lost, or sent by USPiKeyboardSetLEDs

keyboard == <<held, mods, news>>
kbdDriver == <<urb, report, lastCode, locks, raw, typed>>
leds_ == <<leds, task, mask, lastLEDs, told>>
kbdVars == <<held, mods, news, leds, urb, report, lastCode, locks, raw, typed, task, mask,
          lastLEDs, used, wanted, parity, clean, quiet, told>>

-----------------------------------------------------------------------------
(* s_DefaultMap (UK): a row of each kind, for K_NORMTAB, K_SHIFTTAB,       *)
(* K_ALTTAB and K_ALTSHIFTTAB.                                             *)
DefaultMap ==
    [phantom |-> <<"None", "None", "None", "None">>,
     a       |-> <<"a", "A", "None", "None">>,
     one     |-> <<"1", "!", "None", "None">>,
     tick    |-> <<"tick", "not", "|", "None">>,
     caps    |-> <<"CapsLock", "CapsLock", "None", "None">>,
     f1      |-> <<"F1", "None", "None", "None">>,
     f10     |-> <<"F10", "None", "None", "None">>,
     scroll  |-> <<"ScrollLock", "None", "None", "None">>,
     del     |-> <<"Delete", "None", "None", "None">>,
     num     |-> <<"NumLock", "NumLock", "None", "None">>,
     kp1     |-> <<"End", "KP_1", "None", "None">>,
     kpdel   |-> <<"Delete", "KP_Period", "None", "None">>]

Modifiers == {"shift", "ctrl", "alt", "altgr", "win"}

(* A stroke is a key of the map with some of the modifier keys.            *)
ASSUME KeyboardConstants == Strokes \subseteq (DOMAIN DefaultMap) \X (SUBSET Modifiers)

Keypad == {"num", "kp1", "kpdel"}
Locks == {"CapsLock", "NumLock", "ScrollLock"}
Lower == {"a"}
Upper == {"A"}
OtherCase == [a |-> "A", A |-> "a"]
Control == [a |-> "^a"]
Chars == Lower \union Upper \union {"1", "!", "tick", "not", "|"}

(* s_KeyStrings has no string for these.                                   *)
Silent == {"None", "F10"}

(* The column that the modifiers and Num Lock choose.                      *)
Table(key, m) ==
    CASE key \in Keypad -> IF "NumLock" \in locks THEN 2 ELSE 1
      [] key \notin Keypad /\ "altgr" \in m -> IF "shift" \in m THEN 4 ELSE 3
      [] OTHER -> IF "shift" \in m THEN 2 ELSE 1

(* KeyMapTranslate, without the switching of the locks.                    *)
Translate(key, m) ==
    LET norm == DefaultMap[key][1] IN
    CASE norm = "Delete" /\ {"ctrl", "alt"} \subseteq m -> "Shutdown"
      [] norm \in {"F1", "F10"} /\ "alt" \in m ->
           IF norm = "F1" THEN "Console1" ELSE "Console10"
      [] OTHER -> IF m \cap {"alt", "win"} # {} THEN "None" ELSE DefaultMap[key][Table(key, m)]

(* The locks after a key event: ActionSwitchCapsLock and the like.         *)
Switched(key, m) ==
    LET c == Translate(key, m) IN
    IF c \notin Locks THEN locks ELSE IF c \in locks THEN locks \ {c} ELSE locks \union {c}

(* KeyMapGetString: <<>> for no string.                                    *)
GetString(c, m) ==
    CASE c \in Silent -> <<>>
      [] c \notin Silent \union Chars -> <<c>>
      [] c \in Chars /\ "ctrl" \in m -> IF c \in Lower THEN <<Control[c]>> ELSE <<>>
      [] c \in Chars /\ "ctrl" \notin m ->
           IF "CapsLock" \in locks /\ c \in DOMAIN OtherCase THEN <<OtherCase[c]>> ELSE <<c>>

(* USBKeyboardDeviceGenerateKeyEvent: the handler calls it makes.  The     *)
(* string is looked up after the locks have been switched, but only for    *)
(* keys that switch none.                                                  *)
KeyEvent(key, m) ==
    LET c == Translate(key, m) IN
    CASE c \in Locks -> <<>>
      [] c \in {"Console1", "Console10", "Shutdown"} -> <<c>>
      [] OTHER -> GetString(c, m)

(* USBKeyboardDeviceGetKeyCode: the last slot that is in use.              *)
KeyCode == IF report.keys = <<>> THEN "0" ELSE Last(report.keys)

-----------------------------------------------------------------------------
(* USBKeyboardDeviceConfigure has sent m_ucLastLEDStatus, 0, to the LEDs   *)
(* and started the request.  The message may have failed: then the LEDs    *)
(* are still those that power-up left on.                                  *)
KbdInit ==
    /\ held = <<>> /\ mods = {} /\ news = FALSE
    /\ \/ leds = {} /\ told = TRUE
       \/ leds \in PowerUpLEDs /\ told = FALSE
    /\ lastLEDs = {}
    /\ urb = "armed" /\ report = [mods |-> {}, keys |-> <<>>]
    /\ lastCode = "0"
    /\ locks = {"NumLock"} /\ parity = {}
    /\ raw = FALSE
    /\ typed = <<>> /\ wanted = <<>>
    /\ task = "no" /\ mask = {}
    /\ used = <<0, 0>>
    /\ clean = TRUE /\ quiet = FALSE

(* What a press of a key should do, when the locks are those that were     *)
(* pressed an odd number of times, Num Lock being on at first.             *)
On(lock) == (lock \in parity) # (lock = "NumLock")
Wanted(key, m) ==
    LET alt == "alt" \in m
        dead == m \cap {"alt", "win"} # {}
        ctrl == "ctrl" \in m
        shift == "shift" \in m
        plain == ~dead /\ ~ctrl /\ "altgr" \notin m
    IN CASE key = "a" /\ plain -> <<IF shift # On("CapsLock") THEN "A" ELSE "a">>
         [] key = "a" /\ ctrl /\ ~dead /\ ~shift /\ "altgr" \notin m -> <<"^a">>
         [] key = "one" /\ plain -> <<IF shift THEN "!" ELSE "1">>
         [] key = "tick" /\ m = {"altgr"} -> <<"|">>
         [] key = "tick" /\ plain -> <<IF shift THEN "not" ELSE "tick">>
         [] key = "kp1" /\ ~dead -> <<IF On("NumLock") THEN "KP_1" ELSE "End">>
         [] key \in {"del", "kpdel"} /\ alt /\ ctrl -> <<"Shutdown">>
         [] key = "kpdel" /\ ~dead -> <<IF On("NumLock") THEN "KP_Period" ELSE "Delete">>
         [] key = "del" /\ ~dead /\ ~shift /\ "altgr" \notin m -> <<"Delete">>
         [] key = "f1" /\ alt -> <<"Console1">>
         [] key = "f10" /\ alt -> <<"Console10">>
         [] key = "f1" /\ ~dead /\ ~shift /\ "altgr" \notin m -> <<"F1">>
         [] OTHER -> <<>>
WantedLock(key, m) ==
    {lock \in Locks :
        /\ m \cap {"alt", "win"} = {}
        /\ \/ lock = "NumLock" /\ key = "num"
           \/ lock = "CapsLock" /\ key = "caps" /\ "altgr" \notin m
           \/ lock = "ScrollLock" /\ key = "scroll" /\ m \cap {"altgr", "shift"} = {}}

(* The keyboard: a key or a modifier goes down or up, and the report is    *)
(* sent when the controller asks for it, or is lost with the transfer.     *)
Press(key, m) ==
    /\ ~news
    /\ used[1] < MaxReports
    /\ key \notin ToSet(held)
    /\ Len(held) < 2
    /\ held' = Append(held, key)
    /\ mods' = m
    /\ news' = TRUE
    /\ used' = [used EXCEPT ![1] = @ + 1]
    /\ wanted' = wanted \o Wanted(key, m)
    /\ parity' = LET l == WantedLock(key, m) IN (parity \ l) \union (l \ parity)
    /\ clean' = (clean /\ held = <<>>)
    /\ UNCHANGED <<kbdDriver, leds_, quiet>>

Release(key) ==
    /\ ~news
    /\ key \in ToSet(held)
    /\ held' = IF held[1] = key THEN Tail(held) ELSE <<held[1]>>
    /\ mods' = {}
    /\ news' = TRUE
    /\ UNCHANGED <<kbdDriver, leds_, used, wanted, parity, clean, quiet>>

(* Shift and the like go down or up alone: the keys of the report are      *)
(* those of the one before it.                                             *)
ModifiersOnly(m) ==
    /\ ~news
    /\ used[1] < MaxReports
    /\ m # mods
    /\ mods' = m
    /\ news' = TRUE
    /\ used' = [used EXCEPT ![1] = @ + 1]
    /\ UNCHANGED <<held, kbdDriver, leds_, wanted, parity, clean, quiet>>

SendReport ==
    /\ urb = "armed"
    /\ news
    /\ urb' = "done"
    /\ report' = [mods |-> mods, keys |-> held]
    /\ news' = FALSE
    /\ UNCHANGED <<held, mods, lastCode, locks, raw, typed, leds_, used, wanted, parity, clean, quiet>>

LoseReport ==
    /\ urb = "armed"
    /\ news
    /\ urb' = "failed"
    /\ news' = FALSE
    /\ clean' = FALSE
    /\ UNCHANGED <<held, mods, report, lastCode, locks, raw, typed, leds_, used, wanted, parity, quiet>>

-----------------------------------------------------------------------------
(* USBKeyboardDeviceCompletionRoutine, in the FIQ.                         *)

(* Faulty variant: a report without keys leaves the last code alone.       *)
NextCodeKept == IF KeyCode = "0" THEN lastCode ELSE KeyCode

NextCode == KeyCode

CompletionFails ==
    /\ urb = "failed"
    /\ urb' = "armed"
    /\ UNCHANGED <<keyboard, report, lastCode, locks, raw, typed, leds_, used, wanted, parity, clean, quiet>>

CompletionRaw ==
    /\ urb = "done"
    /\ raw
    /\ urb' = "armed"
    /\ UNCHANGED <<keyboard, report, lastCode, locks, raw, typed, leds_, used, wanted, parity, clean, quiet>>

Completion ==
    LET new == KeyCode \notin {lastCode, "0"} IN
    /\ urb = "done"
    /\ ~raw
    /\ lastCode' = NextCode
    /\ locks' = IF new THEN Switched(KeyCode, report.mods) ELSE locks
    /\ typed' = IF new THEN typed \o KeyEvent(KeyCode, report.mods) ELSE typed
    /\ quiet' = (quiet /\ locks' = locks)
    /\ urb' = "armed"
    /\ UNCHANGED <<keyboard, report, raw, leds_, used, wanted, parity, clean>>

-----------------------------------------------------------------------------
(* The application.                                                        *)

KbdCall == used[2] < MaxKbdCalls /\ task = "no" /\ used' = [used EXCEPT ![2] = @ + 1]

(* USPiKeyboardRegisterKeyStatusHandlerRaw.                                *)
RegisterRaw ==
    /\ KbdCall
    /\ ~raw
    /\ raw' = TRUE
    /\ clean' = FALSE
    /\ UNCHANGED <<keyboard, urb, report, lastCode, locks, typed, leds_, wanted, parity, quiet>>

(* USPiKeyboardUpdateLEDs: look at the locks, send the change, remember.   *)
UpdateLEDs ==
    /\ KbdCall
    /\ quiet' = TRUE
    /\ mask' = locks
    /\ task' = IF locks # lastLEDs THEN "update" ELSE "no"
    /\ UNCHANGED <<keyboard, kbdDriver, leds, lastLEDs, told, wanted, parity, clean>>

(* USPiKeyboardSetLEDs.                                                    *)
SetLEDs(m) ==
    /\ KbdCall
    /\ mask' = m
    /\ task' = "set"
    /\ told' = FALSE
    /\ UNCHANGED <<keyboard, kbdDriver, leds, lastLEDs, wanted, parity, clean, quiet>>

(* USBKeyboardDeviceSetLEDs: the message, which may fail with a warning.   *)
LEDsMessageDone ==
    /\ task \in {"update", "set"}
    /\ leds' = mask
    /\ task' = IF task = "update" THEN "store" ELSE "no"
    /\ told' = (task = "update")
    /\ UNCHANGED <<keyboard, kbdDriver, mask, lastLEDs, used, wanted, parity, clean, quiet>>

LEDsMessageFails ==
    /\ task \in {"update", "set"}
    /\ task' = IF task = "update" THEN "store" ELSE "no"
    /\ told' = FALSE
    /\ UNCHANGED <<keyboard, kbdDriver, leds, mask, lastLEDs, used, wanted, parity, clean, quiet>>

(* Faulty variant: the locks are looked at again.                          *)
StoreLEDsNow ==
    /\ task = "store"
    /\ lastLEDs' = locks
    /\ task' = "no"
    /\ UNCHANGED <<keyboard, kbdDriver, leds, mask, told, used, wanted, parity, clean, quiet>>

StoreLEDs ==
    /\ task = "store"
    /\ lastLEDs' = mask
    /\ task' = "no"
    /\ UNCHANGED <<keyboard, kbdDriver, leds, mask, told, used, wanted, parity, clean, quiet>>

KbdNext ==
    \/ \E s \in Strokes : Press(s[1], s[2]) \/ Release(s[1]) \/ ModifiersOnly(s[2])
    \/ SendReport \/ LoseReport
    \/ Completion \/ CompletionRaw \/ CompletionFails
    \/ RegisterRaw \/ UpdateLEDs \/ (\E m \in {{}, Locks} : SetLEDs(m))
    \/ LEDsMessageDone \/ LEDsMessageFails \/ StoreLEDs

KbdSpec == KbdInit /\ [][KbdNext]_kbdVars

-----------------------------------------------------------------------------
(* Properties.                                                             *)

(* As long as one key at a time is down and no report is lost, every press *)
(* types exactly what is printed on the key, once, with the modifiers it   *)
(* was pressed with, whatever modifiers go down or up before its release:  *)
(* upper case with one of Shift and Caps Lock, keypad digits with Num      *)
(* Lock, a control character, a console or a shutdown with their           *)
(* modifiers; and a lock is on exactly if its key has been pressed an odd  *)
(* number of times.  Aimed at the comparison with m_ucLastPhyCode and the  *)
(* order of the conditions in KeyMapTranslate and KeyMapGetString.         *)
TypedRight ==
    clean /\ ~news /\ urb = "armed"
    => typed = wanted /\ locks = {l \in Locks : On(l)}

(* Once USPiKeyboardUpdateLEDs has returned, the LEDs show the locks if no *)
(* lock changed since it looked, although the completion routine may have  *)
(* switched one while the message was under way: that change is still      *)
(* seen by the next call.  A message that failed, or that                  *)
(* USPiKeyboardSetLEDs sent, is not made good by the next call.            *)
LedsFollow == task = "no" /\ quiet /\ told => leds = locks

=============================================================================
