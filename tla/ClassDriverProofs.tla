-------------------------- MODULE ClassDriverProofs --------------------------
(***************************************************************************)
(* Proofs about two drivers of device classes, which share no state.       *)
(*                                                                         *)
(* Keyboard: for any strokes, any number of reports and calls.             *)
(* Ethernet: for any lengths of frames, any number of calls, link changes, *)
(* arrivals and failed messages, and any patience of the loops that wait.  *)
(***************************************************************************)
EXTENDS Keyboard, Ethernet, SequenceTheorems, TLAPS

Keys == DOMAIN DefaultMap

(* Locks that are on, when each was pressed so often.                      *)
OnLocks == {l \in Locks : On(l)}

-----------------------------------------------------------------------------
(* The key map.                                                            *)

LEMMA KeysAre ==
    Keys = {"phantom", "a", "one", "tick", "caps", "f1", "f10", "scroll", "del", "num", "kp1",
            "kpdel"}
BY DEF Keys, DefaultMap

(* The rows of the map.                                                    *)
LEMMA Rows ==
    /\ DefaultMap["phantom"] = <<"None", "None", "None", "None">>
    /\ DefaultMap["a"] = <<"a", "A", "None", "None">>
    /\ DefaultMap["one"] = <<"1", "!", "None", "None">>
    /\ DefaultMap["tick"] = <<"tick", "not", "|", "None">>
    /\ DefaultMap["caps"] = <<"CapsLock", "CapsLock", "None", "None">>
    /\ DefaultMap["f1"] = <<"F1", "None", "None", "None">>
    /\ DefaultMap["f10"] = <<"F10", "None", "None", "None">>
    /\ DefaultMap["scroll"] = <<"ScrollLock", "None", "None", "None">>
    /\ DefaultMap["del"] = <<"Delete", "None", "None", "None">>
    /\ DefaultMap["num"] = <<"NumLock", "NumLock", "None", "None">>
    /\ DefaultMap["kp1"] = <<"End", "KP_1", "None", "None">>
    /\ DefaultMap["kpdel"] = <<"Delete", "KP_Period", "None", "None">>
BY DEF DefaultMap

(* Pressed keys, one at a time: what KeyMapTranslate makes of it, in terms *)
(* of the modifiers.                                                       *)
LEMMA TranslateA ==
    ASSUME NEW m \in SUBSET Modifiers, NEW key \in {"a", "one", "tick"}
    PROVE  Translate(key, m) =
             IF m \cap {"alt", "win"} # {} THEN "None"
             ELSE IF "altgr" \in m
             THEN IF key = "tick" /\ "shift" \notin m THEN "|" ELSE "None"
             ELSE IF "shift" \in m
             THEN IF key = "a" THEN "A" ELSE IF key = "one" THEN "!" ELSE "not"
             ELSE IF key = "a" THEN "a" ELSE IF key = "one" THEN "1" ELSE "tick"
BY Rows DEF Translate, Table, Keypad

LEMMA TranslateLock ==
    ASSUME NEW m \in SUBSET Modifiers, NEW key \in {"caps", "num", "scroll"}
    PROVE  Translate(key, m) =
             IF m \cap {"alt", "win"} # {} THEN "None"
             ELSE IF key = "num" THEN "NumLock"
             ELSE IF "altgr" \in m THEN "None"
             ELSE IF key = "caps" THEN "CapsLock"
             ELSE IF "shift" \in m THEN "None" ELSE "ScrollLock"
BY Rows DEF Translate, Table, Keypad

LEMMA TranslateFunction ==
    ASSUME NEW m \in SUBSET Modifiers, NEW key \in {"f1", "f10"}
    PROVE  Translate(key, m) =
             IF "alt" \in m THEN IF key = "f1" THEN "Console1" ELSE "Console10"
             ELSE IF m \cap {"alt", "win", "altgr", "shift"} # {} THEN "None"
             ELSE IF key = "f1" THEN "F1" ELSE "F10"
BY Rows DEF Translate, Table, Keypad

LEMMA TranslatePad ==
    ASSUME NEW m \in SUBSET Modifiers, NEW key \in {"kp1", "kpdel"}
    PROVE  Translate(key, m) =
             IF key = "kpdel" /\ "alt" \in m /\ "ctrl" \in m THEN "Shutdown"
             ELSE IF m \cap {"alt", "win"} # {} THEN "None"
             ELSE IF key = "kp1" THEN IF "NumLock" \in locks THEN "KP_1" ELSE "End"
             ELSE IF "NumLock" \in locks THEN "KP_Period" ELSE "Delete"
BY Rows DEF Translate, Table, Keypad

LEMMA TranslateRest ==
    ASSUME NEW m \in SUBSET Modifiers, NEW key \in {"phantom", "del"}
    PROVE  Translate(key, m) =
             IF key = "phantom" THEN "None"
             ELSE IF "alt" \in m /\ "ctrl" \in m THEN "Shutdown"
             ELSE IF m \cap {"alt", "win", "altgr", "shift"} # {} THEN "None"
             ELSE "Delete"
BY Rows DEF Translate, Table, Keypad

(* KeyMapGetString of the codes.                                           *)
LEMMA Strings ==
    ASSUME NEW c, NEW m
    PROVE  /\ c \in {"None", "F10"} => GetString(c, m) = <<>>
           /\ c \in {"F1", "End", "Delete", "KP_1", "KP_Period"} => GetString(c, m) = <<c>>
           /\ c \in {"1", "!", "tick", "not", "|"} =>
                 GetString(c, m) = IF "ctrl" \in m THEN <<>> ELSE <<c>>
           /\ c = "a" => GetString(c, m) =
                 IF "ctrl" \in m THEN <<"^a">> ELSE IF "CapsLock" \in locks THEN <<"A">> ELSE <<"a">>
           /\ c = "A" => GetString(c, m) =
                 IF "ctrl" \in m THEN <<>> ELSE IF "CapsLock" \in locks THEN <<"a">> ELSE <<"A">>
<1> DOMAIN OtherCase = {"a", "A"} /\ OtherCase["a"] = "A" /\ OtherCase["A"] = "a"
  BY DEF OtherCase
<1> Control["a"] = "^a"
  BY DEF Control
<1> QED BY DEF GetString, Silent, Chars, Lower, Upper

(* Modifiers as Booleans.                                                  *)
LEMMA ModifierSets ==
    ASSUME NEW m \in SUBSET Modifiers
    PROVE  /\ m \cap {"alt", "win"} # {} <=> "alt" \in m \/ "win" \in m
           /\ m = {"altgr"} <=> /\ "altgr" \in m /\ "shift" \notin m /\ "ctrl" \notin m
                                /\ "alt" \notin m /\ "win" \notin m
           /\ m \cap {"altgr", "shift"} = {} <=> "altgr" \notin m /\ "shift" \notin m
           /\ m \cap {"alt", "win", "altgr", "shift"} # {} <=>
                 "alt" \in m \/ "win" \in m \/ "altgr" \in m \/ "shift" \in m
BY DEF Modifiers

(* The locks after a press, as KeyMapTranslate switches them and as the    *)
(* number of presses says.                                                 *)
LEMMA LocksRight ==
    ASSUME NEW key \in Keys, NEW m \in SUBSET Modifiers, parity \subseteq Locks, locks = OnLocks
    PROVE  Switched(key, m) =
             {x \in Locks : (x \in (parity \ WantedLock(key, m)) \union (WantedLock(key, m) \ parity))
                              # (x = "NumLock")}
<1> DEFINE c == Translate(key, m)
           l == WantedLock(key, m)
           next == (parity \ l) \union (l \ parity)
<1> SUFFICES Switched(key, m) = {x \in Locks : (x \in next) # (x = "NumLock")}
  OBVIOUS
<1>1. c \notin Locks => l = {}
  BY TranslateA, TranslateLock, TranslateFunction, TranslatePad, TranslateRest, ModifierSets,
     KeysAre DEF WantedLock, Locks
<1>2. c \in Locks => l = {c}
  BY TranslateA, TranslateLock, TranslateFunction, TranslatePad, TranslateRest, ModifierSets,
     KeysAre DEF WantedLock, Locks
<1> HIDE DEF c
<1>3. \A x \in Locks : x \in locks <=> (x \in parity) # (x = "NumLock")
  BY DEF OnLocks, On
<1>4. locks \subseteq Locks
  BY DEF OnLocks
<1>5. Switched(key, m) = IF c \notin Locks THEN locks
                         ELSE IF c \in locks THEN locks \ {c} ELSE locks \union {c}
  BY DEF Switched, c
<1>6. CASE c \notin Locks
  <2>1. next = parity
    BY <1>1, <1>6
  <2> QED BY <1>3, <1>4, <1>5, <1>6, <2>1
<1>7. CASE c \in Locks
  <2>1. \A x \in Locks : x \in next <=> (x \in parity) # (x = c)
    BY <1>2, <1>7
  <2>2. \A x \in Locks : x \in Switched(key, m) <=> (x \in next) # (x = "NumLock")
    BY <1>3, <1>5, <1>7, <2>1
  <2>3. Switched(key, m) \subseteq Locks
    BY <1>4, <1>5, <1>7
  <2> QED BY <2>2, <2>3
<1> QED BY <1>6, <1>7

(* What a press types, as the completion routine does it and as it is      *)
(* printed on the key.                                                     *)
LEMMA KeyRight ==
    ASSUME NEW key \in Keys, NEW m \in SUBSET Modifiers, locks = OnLocks
    PROVE  KeyEvent(key, m) = Wanted(key, m)
<1>1. ("CapsLock" \in locks <=> On("CapsLock")) /\ ("NumLock" \in locks <=> On("NumLock"))
  BY DEF OnLocks, Locks
<1>2. KeyEvent(key, m) = LET c == Translate(key, m) IN
          IF c \in Locks THEN <<>>
          ELSE IF c \in {"Console1", "Console10", "Shutdown"} THEN <<c>>
          ELSE GetString(c, m)
  BY DEF KeyEvent, Locks
<1>3. CASE key = "a"
  <2>0. (("shift" \in m) # On("CapsLock")) <=> ("shift" \in m <=> "CapsLock" \notin locks)
    BY DEF On, OnLocks, Locks
  <2>1. CASE "alt" \in m \/ "win" \in m \/ "altgr" \in m
    BY <1>1, <1>2, <1>3, <2>1, TranslateA, Strings, ModifierSets DEF Wanted, Locks
  <2>2. CASE ~("alt" \in m \/ "win" \in m \/ "altgr" \in m) /\ "shift" \in m
    BY <1>1, <1>2, <1>3, <2>2, <2>0, TranslateA, Strings, ModifierSets DEF Wanted, Locks
  <2>3. CASE ~("alt" \in m \/ "win" \in m \/ "altgr" \in m) /\ "shift" \notin m
    BY <1>1, <1>2, <1>3, <2>3, <2>0, TranslateA, Strings, ModifierSets DEF Wanted, Locks
  <2> QED BY <2>1, <2>2, <2>3
<1>4. CASE key = "one"
  BY <1>1, <1>2, <1>4, TranslateA, Strings, ModifierSets DEF Wanted, Locks
<1>5. CASE key = "tick"
  BY <1>1, <1>2, <1>5, TranslateA, Strings, ModifierSets DEF Wanted, Locks
<1>6. CASE key \in {"caps", "num", "scroll"}
  BY <1>1, <1>2, <1>6, TranslateLock, Strings, ModifierSets DEF Wanted, Locks
<1>7. CASE key \in {"f1", "f10"}
  BY <1>1, <1>2, <1>7, TranslateFunction, Strings, ModifierSets DEF Wanted, Locks
<1>8. CASE key = "kp1"
  BY <1>1, <1>2, <1>8, TranslatePad, Strings, ModifierSets DEF Wanted, Locks
<1>9. CASE key = "kpdel"
  BY <1>1, <1>2, <1>9, TranslatePad, Strings, ModifierSets DEF Wanted, Locks
<1>10. CASE key \in {"phantom", "del"}
  BY <1>1, <1>2, <1>10, TranslateRest, Strings, ModifierSets DEF Wanted, Locks
<1> QED BY <1>3, <1>4, <1>5, <1>6, <1>7, <1>8, <1>9, <1>10, KeysAre

-----------------------------------------------------------------------------
(* The completion routine.                                                 *)

Settled == typed = wanted /\ locks = OnLocks

(* The press of a key that is yet to be seen by the completion routine.    *)
Pending(key, m) == typed \o KeyEvent(key, m) = wanted /\ Switched(key, m) = OnLocks

KbdTypeOK ==
    /\ held \in Seq(Keys) /\ mods \in SUBSET Modifiers /\ news \in BOOLEAN
    /\ report \in [mods : SUBSET Modifiers, keys : Seq(Keys)]
    /\ parity \in SUBSET Locks
    /\ clean \in BOOLEAN /\ raw \in BOOLEAN

(* The driver is ready for a report of these keys: it has seen the key, or *)
(* there is none, or this report is the one of the press.                  *)
Ready(keys, m) ==
    \/ Settled /\ (keys = <<>> \/ lastCode = keys[1])
    \/ keys # <<>> /\ lastCode = "0" /\ Pending(keys[1], m)

(* One key, and a press that the driver has not seen is in the keyboard or *)
(* in the report, never in both; modifiers that changed since are in the   *)
(* keyboard only.                                                          *)
OneAtATime == ~raw /\ urb \in {"armed", "done"} /\ Len(held) <= 1

ArmedQuiet ==
    urb = "armed" /\ ~news =>
        Settled /\ lastCode = IF held = <<>> THEN "0" ELSE held[1]
ArmedNews == urb = "armed" /\ news => Ready(held, mods)
DoneQuiet ==
    urb = "done" /\ ~news =>
        report.mods = mods /\ report.keys = held /\ Ready(held, mods)
DoneNews ==
    urb = "done" /\ news =>
        \/ /\ Len(report.keys) <= 1
           /\ held = <<>> \/ held = report.keys
           /\ Ready(report.keys, report.mods)
        \/ report.keys = <<>> /\ held # <<>> /\ Pending(held[1], mods)

Follows == OneAtATime /\ ArmedQuiet /\ ArmedNews /\ DoneQuiet /\ DoneNews

KbdInv == KbdTypeOK /\ (clean => Follows)

(* A step that changes neither what was typed nor a lock.                  *)
LEMMA SamePending ==
    ASSUME UNCHANGED <<typed, wanted, locks, parity>>
    PROVE  /\ Settled' = Settled
           /\ \A key, m : Pending(key, m)' = Pending(key, m)
           /\ lastCode' = lastCode => \A keys, m : Ready(keys, m)' = Ready(keys, m)
<1>1. /\ Settled' = Settled
      /\ \A key, m : Pending(key, m)' = Pending(key, m)
  BY DEF Settled, Pending, OnLocks, On, KeyEvent, Switched, GetString, Translate, Table
<1> QED BY <1>1 DEF Ready

(* A sequence of at most one key.                                          *)
LEMMA OneKey ==
    ASSUME NEW s \in Seq(Keys), Len(s) <= 1
    PROVE  s # <<>> => s = <<s[1]>> /\ s[1] \in Keys /\ Len(s) = 1
OBVIOUS

LEMMA ZeroIsNoKey == "0" \notin Keys
BY KeysAre

LEMMA KbdInitInv == KbdInit => KbdInv
<1> SUFFICES ASSUME KbdInit PROVE KbdInv
  OBVIOUS
<1>1. KbdTypeOK
  <2>1. <<>> \in Seq(Keys) /\ {} \in SUBSET Modifiers /\ {} \in SUBSET Locks
    OBVIOUS
  <2>2. [mods |-> {}, keys |-> <<>>] \in [mods : SUBSET Modifiers, keys : Seq(Keys)]
    BY <2>1
  <2> QED BY <2>1, <2>2 DEF KbdInit, KbdTypeOK
<1>2. OnLocks = {"NumLock"}
  BY DEF KbdInit, OnLocks, On, Locks
<1> QED BY <1>1, <1>2 DEF KbdInit, KbdInv, Follows, OneAtATime, ArmedQuiet, ArmedNews, DoneQuiet,
                          DoneNews, Settled

LEMMA PressKeeps ==
    ASSUME KbdInv, NEW s \in Strokes, Press(s[1], s[2])
    PROVE  KbdInv'
<1> DEFINE key == s[1]  m == s[2]
<1>1. key \in Keys /\ m \in SUBSET Modifiers
  BY KeyboardConstants DEF Keys
<1>2. ~news /\ held' = Append(held, key) /\ mods' = m /\ news' = TRUE
      /\ wanted' = wanted \o Wanted(key, m)
      /\ parity' = (parity \ WantedLock(key, m)) \union (WantedLock(key, m) \ parity)
      /\ clean' = (clean /\ held = <<>>)
      /\ UNCHANGED <<urb, report, lastCode, locks, raw, typed>>
  BY DEF Press, kbdDriver
<1> HIDE DEF key, m
<1>3. KbdTypeOK'
  <2>1. WantedLock(key, m) \subseteq Locks
    BY DEF WantedLock
  <2> QED BY <1>1, <1>2, <2>1 DEF KbdInv, KbdTypeOK
<1>4. ASSUME clean' PROVE Follows'
  <2>1. clean /\ held = <<>>
    BY <1>2, <1>4, Zenon
  <2>5. held' # <<>> /\ held'[1] = key /\ Len(held') = 1
    BY <1>1, <1>2, <2>1
  <2>2. Settled /\ (urb = "armed" => lastCode = "0") /\ (urb = "done" => report.keys = <<>>)
    BY <1>2, <2>1 DEF KbdInv, Follows, OneAtATime, ArmedQuiet, DoneQuiet, Ready
  <2>3. Pending(key, m)'
    <3>1. KeyEvent(key, m)' = KeyEvent(key, m) /\ Switched(key, m)' = Switched(key, m)
      BY <1>2 DEF KeyEvent, Switched, GetString, Translate, Table
    <3>2. KeyEvent(key, m) = Wanted(key, m)
      BY <1>1, <2>2, KeyRight DEF Settled
    <3>3. Switched(key, m) = {x \in Locks : (x \in parity') # (x = "NumLock")}
      <4>1. parity \subseteq Locks /\ locks = OnLocks
        BY <2>2 DEF Settled, KbdInv, KbdTypeOK
      <4>2. Switched(key, m) =
              {x \in Locks : (x \in (parity \ WantedLock(key, m)) \union (WantedLock(key, m) \ parity))
                               # (x = "NumLock")}
        BY <1>1, <4>1, LocksRight, Zenon
      <4>3. parity' = (parity \ WantedLock(key, m)) \union (WantedLock(key, m) \ parity)
        BY <1>2
      <4> QED BY <4>2, <4>3, Zenon
    <3>4. OnLocks' = {x \in Locks : (x \in parity') # (x = "NumLock")}
      BY DEF OnLocks, On
    <3> QED BY <1>2, <2>2, <3>1, <3>2, <3>3, <3>4 DEF Pending, Settled
  <2>4. Pending(held[1], mods)'
    BY <1>2, <2>3, <2>5
  <2>6. ArmedNews' /\ DoneNews'
    BY <1>2, <2>2, <2>4, <2>5 DEF ArmedNews, DoneNews, Ready
  <2>7. OneAtATime' /\ ArmedQuiet' /\ DoneQuiet'
    BY <1>2, <2>1, <2>5 DEF KbdInv, Follows, OneAtATime, ArmedQuiet, DoneQuiet
  <2> QED BY <2>6, <2>7 DEF Follows
<1> QED BY <1>3, <1>4 DEF KbdInv

LEMMA ReleaseKeeps ==
    ASSUME KbdInv, NEW key, Release(key)
    PROVE  KbdInv'
<1>1. ~news /\ mods' = {} /\ news' = TRUE
      /\ held' = (IF held[1] = key THEN Tail(held) ELSE <<held[1]>>)
      /\ UNCHANGED <<urb, report, lastCode, locks, raw, typed, wanted, parity, clean>>
  BY DEF Release, kbdDriver
<1>2. PICK i \in 1 .. Len(held) : held[i] = key
  BY DEF Release, ToSet, KbdInv, KbdTypeOK
<1>3. KbdTypeOK'
  <2>1. held \in Seq(Keys) /\ Len(held) > 0
    BY <1>2 DEF KbdInv, KbdTypeOK
  <2>3. Tail(held) \in Seq(Keys) /\ <<held[1]>> \in Seq(Keys)
    BY <2>1
  <2>2. held' \in Seq(Keys)
    BY <1>1, <2>3
  <2> QED BY <1>1, <2>2 DEF KbdInv, KbdTypeOK
<1>4. ASSUME clean' PROVE Follows'
  <2>4. clean /\ held \in Seq(Keys) /\ Len(held) <= 1
    BY <1>1, <1>4 DEF KbdInv, KbdTypeOK, Follows, OneAtATime
  <2>5. held # <<>> /\ Len(held) = 1 /\ held[1] = key
    <3>1. Len(held) \in Nat /\ Len(held) <= 1 /\ i \in 1 .. Len(held)
      BY <1>2, <2>4
    <3>2. i = 1 /\ Len(held) = 1
      <4>1. \A n \in Nat : \A k \in 1 .. n : n <= 1 => k = 1 /\ n = 1
        OBVIOUS
      <4> QED BY <3>1, <4>1, Zenon
    <3>3. held # <<>>
      BY <3>2
    <3> QED BY <1>2, <3>2, <3>3
  <2>6. Tail(held) = <<>>
    <3>1. Tail(held) \in Seq(Keys) /\ Len(Tail(held)) = 0
      BY <2>4, <2>5
    <3> QED BY <3>1, EmptySeq
  <2>1. clean /\ held # <<>> /\ Len(held) = 1 /\ held' = <<>> /\ Len(held') = 0
    BY <1>1, <2>4, <2>5, <2>6
  <2>2. Settled' = Settled /\ \A k, m : Ready(k, m)' = Ready(k, m)
    BY <1>1, SamePending
  <2>3. ArmedNews' /\ DoneNews'
    <3>1. urb = "armed" => Settled'
      BY <1>1, <2>1, <2>2 DEF KbdInv, Follows, ArmedQuiet
    <3>2. urb = "done" => report.keys = held /\ Ready(report.keys, report.mods)
      BY <1>1, <2>1 DEF KbdInv, Follows, DoneQuiet
    <3>3. urb = "done" => Ready(report.keys, report.mods)'
      BY <1>1, <2>2, <3>2
    <3>4. ArmedNews'
      BY <1>1, <2>1, <3>1 DEF ArmedNews, Ready
    <3>5. urb = "done" => Len(report.keys)' <= 1
      BY <1>1, <2>1, <3>2
    <3>6. DoneNews'
      BY <1>1, <2>1, <3>3, <3>5 DEF DoneNews
    <3> QED BY <3>4, <3>6
  <2>7. OneAtATime'
    BY <1>1, <2>1 DEF KbdInv, Follows, OneAtATime
  <2>8. (ArmedQuiet /\ DoneQuiet)'
    BY <1>1 DEF ArmedQuiet, DoneQuiet
  <2> QED BY <2>3, <2>7, <2>8 DEF Follows
<1> QED BY <1>3, <1>4 DEF KbdInv

LEMMA ModifiersKeep ==
    ASSUME KbdInv, NEW s \in Strokes, ModifiersOnly(s[2])
    PROVE  KbdInv'
<1>1. ~news /\ mods' = s[2] /\ news' = TRUE
      /\ UNCHANGED <<held, urb, report, lastCode, locks, raw, typed, wanted, parity, clean>>
  BY DEF ModifiersOnly, kbdDriver
<1>2. s[2] \in SUBSET Modifiers
  BY KeyboardConstants
<1>3. KbdTypeOK'
  BY <1>1, <1>2 DEF KbdInv, KbdTypeOK
<1>4. ASSUME clean' PROVE Follows'
  <2>1. Follows /\ held \in Seq(Keys)
    BY <1>1, <1>4 DEF KbdInv, KbdTypeOK
  <2>2. Settled' = Settled /\ \A k, m : Ready(k, m)' = Ready(k, m)
    BY <1>1, SamePending
  <2>3. OneAtATime' /\ (ArmedQuiet /\ DoneQuiet)'
    BY <1>1, <2>1 DEF Follows, OneAtATime, ArmedQuiet, DoneQuiet
  <2>4. ArmedNews'
    <3>1. CASE urb = "armed"
      <4>1. Settled /\ (held = <<>> \/ lastCode = held[1])
        BY <1>1, <2>1, <3>1 DEF Follows, ArmedQuiet
      <4>2. Ready(held, mods')
        BY <4>1 DEF Ready
      <4> QED BY <1>1, <2>2, <4>2 DEF ArmedNews
    <3> QED BY <1>1, <3>1 DEF ArmedNews
  <2>5. DoneNews'
    <3>1. CASE urb = "done"
      <4>1. report.keys = held /\ Len(held) <= 1 /\ Ready(report.keys, report.mods)
        BY <1>1, <2>1, <3>1 DEF Follows, OneAtATime, DoneQuiet
      <4>2. Ready(report.keys, report.mods)'
        BY <1>1, <2>2, <4>1
      <4> QED BY <1>1, <4>1, <4>2 DEF DoneNews
    <3> QED BY <1>1, <3>1 DEF DoneNews
  <2> QED BY <2>3, <2>4, <2>5 DEF Follows
<1> QED BY <1>3, <1>4 DEF KbdInv

LEMMA SendKeeps ==
    ASSUME KbdInv, SendReport
    PROVE  KbdInv'
<1>1. urb = "armed" /\ news /\ urb' = "done" /\ news' = FALSE
      /\ report' = [mods |-> mods, keys |-> held]
      /\ UNCHANGED <<held, mods, lastCode, locks, raw, typed, wanted, parity, clean>>
  BY DEF SendReport
<1>2. KbdTypeOK'
  BY <1>1 DEF KbdInv, KbdTypeOK
<1>3. \A k, m : Ready(k, m)' = Ready(k, m)
  BY <1>1, SamePending
<1>4. report'.mods = mods' /\ report'.keys = held'
  BY <1>1
<1>5. clean => Ready(held, mods)'
  BY <1>1, <1>3 DEF KbdInv, Follows, ArmedNews
<1> QED BY <1>1, <1>2, <1>4, <1>5
        DEF KbdInv, Follows, OneAtATime, ArmedQuiet, ArmedNews, DoneQuiet, DoneNews

LEMMA CompletionKeeps ==
    ASSUME KbdInv, Completion
    PROVE  KbdInv'
<1> DEFINE new == KeyCode \notin {lastCode, "0"}
<1>1. urb = "done" /\ urb' = "armed" /\ lastCode' = KeyCode
      /\ locks' = (IF new THEN Switched(KeyCode, report.mods) ELSE locks)
      /\ typed' = (IF new THEN typed \o KeyEvent(KeyCode, report.mods) ELSE typed)
      /\ UNCHANGED <<held, mods, news, report, raw, wanted, parity, clean>>
  BY DEF Completion, NextCode, keyboard
<1>2. KbdTypeOK'
  BY <1>1 DEF KbdInv, KbdTypeOK
<1>3. ASSUME clean' PROVE Follows'
  <2>1. Follows /\ OneAtATime'
    BY <1>1, <1>3 DEF KbdInv, Follows, OneAtATime
  <2>2. OnLocks' = OnLocks
    BY <1>1 DEF OnLocks, On
  <2>3. CASE report.keys = <<>>
    <3>1. ~new /\ KeyCode = "0"
      BY <2>3 DEF KeyCode
    <3>2. Settled' = Settled /\ \A k, m : Pending(k, m)' = Pending(k, m)
      BY <1>1, <3>1, SamePending
    <3>3. lastCode' = "0"
      BY <1>1, <3>1
    <3>4. \/ held = <<>> /\ Settled
          \/ news /\ held # <<>> /\ Pending(held[1], mods)
      BY <1>1, <2>1, <2>3 DEF Follows, DoneQuiet, DoneNews, Ready
    <3>5. \/ held' = <<>> /\ Settled'
          \/ news' /\ held' # <<>> /\ Pending(held[1], mods)'
      BY <1>1, <3>2, <3>4
    <3>6. ArmedQuiet' /\ ArmedNews'
      BY <3>3, <3>5 DEF ArmedQuiet, ArmedNews, Ready
    <3> QED BY <1>1, <2>1, <3>6 DEF Follows, DoneQuiet, DoneNews
  <2>4. CASE report.keys # <<>>
    <3>0. report.keys \in Seq(Keys) /\ held \in Seq(Keys) /\ Len(held) <= 1
      BY <2>1 DEF KbdInv, KbdTypeOK, Follows, OneAtATime
    <3>6. Len(report.keys) <= 1
      BY <1>1, <2>1, <2>4, <3>0 DEF KbdInv, KbdTypeOK, Follows, DoneQuiet, DoneNews
    <3>1. Len(report.keys) = 1 /\ report.keys[1] \in Keys /\ report.keys \in Seq(Keys)
      BY <2>4, <3>0, <3>6, OneKey
    <3>2. KeyCode = report.keys[1]
      BY <2>4, <3>1 DEF KeyCode, Last
    <3>3. /\ Ready(report.keys, report.mods)
          /\ held = report.keys \/ (news /\ held = <<>>)
      BY <1>1, <2>1, <2>4 DEF Follows, DoneQuiet, DoneNews
    <3>4. ASSUME lastCode = KeyCode, Settled PROVE Settled'
      <4>1. ~new
        BY <3>4
      <4> QED BY <1>1, <2>2, <3>4, <4>1 DEF Settled
    <3>5. ASSUME lastCode = "0", Pending(KeyCode, report.mods) PROVE Settled'
      <4>1. new
        BY <3>1, <3>2, <3>5, ZeroIsNoKey
      <4> QED BY <1>1, <2>2, <3>5, <4>1 DEF Settled, Pending
    <3>7. Settled' /\ lastCode' = report.keys[1]
      BY <1>1, <2>4, <3>2, <3>3, <3>4, <3>5 DEF Ready
    <3>8. ArmedQuiet' /\ ArmedNews'
      BY <1>1, <2>4, <3>3, <3>7 DEF ArmedQuiet, ArmedNews, Ready
    <3> QED BY <1>1, <2>1, <3>8 DEF Follows, DoneQuiet, DoneNews
  <2> QED BY <2>3, <2>4
<1> QED BY <1>2, <1>3 DEF KbdInv

(* The other steps keep a clean history or end it.                         *)
LEMMA RestKeeps ==
    ASSUME KbdInv,
           \/ LoseReport \/ CompletionRaw \/ CompletionFails \/ RegisterRaw
           \/ UNCHANGED <<held, mods, news, urb, report, lastCode, locks, raw, typed, wanted, parity,
                          clean>>
    PROVE  KbdInv'
<1>1. CASE LoseReport \/ RegisterRaw
  BY <1>1 DEF LoseReport, RegisterRaw, KbdInv, KbdTypeOK, keyboard, leds_
<1>2. CASE CompletionRaw \/ CompletionFails
  <2>1. ~clean /\ UNCHANGED <<held, mods, news, report, raw, parity, clean>>
    BY <1>2 DEF CompletionRaw, CompletionFails, KbdInv, Follows, OneAtATime, keyboard
  <2> QED BY <2>1 DEF KbdInv, KbdTypeOK
<1>3. CASE UNCHANGED <<held, mods, news, urb, report, lastCode, locks, raw, typed, wanted, parity,
                       clean>>
  <2>1. Settled' = Settled /\ \A k, m : /\ Pending(k, m)' = Pending(k, m)
                                       /\ Ready(k, m)' = Ready(k, m)
    BY <1>3, SamePending
  <2>2. Follows' = Follows
    BY <1>3, <2>1 DEF Follows, OneAtATime, ArmedQuiet, ArmedNews, DoneQuiet, DoneNews
  <2>3. KbdTypeOK' = KbdTypeOK
    BY <1>3 DEF KbdTypeOK
  <2> QED BY <1>3, <2>2, <2>3 DEF KbdInv
<1> QED BY <1>1, <1>2, <1>3

LEMMA KbdNextInv == KbdInv /\ [KbdNext]_kbdVars => KbdInv'
<1> SUFFICES ASSUME KbdInv, [KbdNext]_kbdVars PROVE KbdInv'
  OBVIOUS
<1>1. CASE \E s \in Strokes : Press(s[1], s[2]) \/ Release(s[1]) \/ ModifiersOnly(s[2])
  BY <1>1, PressKeeps, ReleaseKeeps, ModifiersKeep
<1>2. CASE SendReport \/ Completion
  BY <1>2, SendKeeps, CompletionKeeps
<1>3. CASE LoseReport \/ CompletionRaw \/ CompletionFails \/ RegisterRaw
  BY <1>3, RestKeeps
<1>4. CASE UpdateLEDs \/ (\E m \in {{}, Locks} : SetLEDs(m)) \/ LEDsMessageDone
           \/ LEDsMessageFails \/ StoreLEDs \/ UNCHANGED kbdVars
  <2>1. UNCHANGED <<held, mods, news, urb, report, lastCode, locks, raw, typed, wanted, parity,
                    clean>>
    BY <1>4 DEF UpdateLEDs, SetLEDs, LEDsMessageDone, LEDsMessageFails, StoreLEDs, kbdVars,
                keyboard, kbdDriver
  <2> QED BY <2>1, RestKeeps
<1> QED BY <1>1, <1>2, <1>3, <1>4 DEF KbdNext

(* A press types what is printed on the key, exactly once, and the locks   *)
(* are those pressed an odd number of times, for every key of the map with *)
(* every set of modifiers and any number of presses, as long as one key at *)
(* a time is down and no report is lost: the completion routine and the    *)
(* key map do what the keyboard says.                                      *)
THEOREM TypedTheorem == KbdSpec => []TypedRight
<1>1. KbdInv => TypedRight
  BY DEF KbdInv, Follows, ArmedQuiet, Settled, OnLocks, TypedRight
<1> QED BY <1>1, KbdInitInv, KbdNextInv, PTL DEF KbdSpec

-----------------------------------------------------------------------------
(* The LEDs.                                                               *)

(* What UpdateLEDs saw is what it sends and remembers, as long as no lock  *)
(* changes; what it remembers is what the LEDs show, as long as no message *)
(* is lost.                                                                *)
LedInv ==
    /\ quiet \in BOOLEAN /\ told \in BOOLEAN
    /\ quiet /\ task \in {"update", "store"} => mask = locks
    /\ quiet /\ task \in {"no", "set"} => lastLEDs = locks
    /\ told /\ task = "no" => leds = lastLEDs
    /\ told /\ task = "store" => leds = mask
    /\ told => task # "set"
    /\ task \in {"no", "update", "store", "set"}

LEMMA LedInitInv == KbdInit => LedInv
BY DEF KbdInit, LedInv

LEMMA LedNextInv == LedInv /\ [KbdNext]_kbdVars => LedInv'
<1> SUFFICES ASSUME LedInv, [KbdNext]_kbdVars PROVE LedInv'
  OBVIOUS
<1>1. CASE \E s \in Strokes : Press(s[1], s[2]) \/ Release(s[1]) \/ ModifiersOnly(s[2])
  BY <1>1 DEF Press, Release, ModifiersOnly, LedInv, kbdDriver, leds_
<1>2. CASE SendReport \/ LoseReport \/ CompletionRaw \/ CompletionFails \/ UNCHANGED kbdVars
  BY <1>2 DEF SendReport, LoseReport, CompletionRaw, CompletionFails, LedInv, kbdVars, leds_
<1>3. CASE Completion
  <2>1. UNCHANGED <<leds, task, mask, lastLEDs, told>> /\ quiet' = (quiet /\ locks' = locks)
    BY <1>3 DEF Completion, leds_
  <2> QED BY <2>1 DEF LedInv
<1>4. CASE RegisterRaw
  BY <1>4 DEF RegisterRaw, LedInv, leds_
<1>5. CASE UpdateLEDs
  BY <1>5 DEF UpdateLEDs, KbdCall, LedInv, kbdDriver
<1>6. CASE \E m \in {{}, Locks} : SetLEDs(m)
  <2>1. task = "no" /\ task' = "set" /\ told' = FALSE
        /\ UNCHANGED <<leds, lastLEDs, quiet, locks>>
    BY <1>6 DEF SetLEDs, KbdCall, kbdDriver
  <2> QED BY <2>1 DEF LedInv
<1>7. CASE LEDsMessageDone
  BY <1>7 DEF LEDsMessageDone, LedInv, kbdDriver
<1>8. CASE LEDsMessageFails
  BY <1>8 DEF LEDsMessageFails, LedInv, kbdDriver
<1>9. CASE StoreLEDs
  BY <1>9 DEF StoreLEDs, LedInv, kbdDriver
<1> QED BY <1>1, <1>2, <1>3, <1>4, <1>5, <1>6, <1>7, <1>8, <1>9 DEF KbdNext

(* The LEDs show the locks whenever USPiKeyboardUpdateLEDs has returned,   *)
(* no lock changed since it looked and the last message got through: a     *)
(* change that the completion routine makes during the message is not      *)
(* forgotten, because UpdateLEDs remembers the status that it sent.        *)
THEOREM LedTheorem == KbdSpec => []LedsFollow
<1>1. LedInv => LedsFollow
  BY DEF LedInv, LedsFollow
<1> QED BY <1>1, LedInitInv, LedNextInv, PTL DEF KbdSpec

-----------------------------------------------------------------------------
(* Frames.                                                                 *)

Frames == [len : Nat, bad : BOOLEAN]
Waiting == [id : Nat, len : Nat, bad : BOOLEAN, at : Nat]
Received == [id : Nat, first : Int, len : Int]
OnWire == [id : Nat, len : Nat]

FrameTypes ==
    /\ chip \in {"smsc", "lan"}
    /\ arrived \in Seq(Frames) /\ fifo \in Seq(Waiting)
    /\ delivered \in Seq(Received)
    /\ sent \in Seq(Nat) /\ wire \in Seq(OnWire)
    /\ txEnd \in Nat /\ txEnd <= FrameBufferSize

(* A frame in the chip is one that arrived; a part of it may be gone with  *)
(* a transfer that failed.                                                 *)
Waits(f) ==
    /\ f.id \in 1 .. Len(arrived)
    /\ f.len = arrived[f.id].len /\ f.bad = arrived[f.id].bad
    /\ f.at # 0 => f.id \in torn

(* Frames wait in the chip as they came.                                   *)
FifoRight ==
    /\ \A i \in 1 .. Len(fifo) : Waits(fifo[i])
    /\ \A i \in 1 .. Len(fifo) : \A j \in 1 .. i - 1 : fifo[j].id < fifo[i].id

(* A delivered frame is right, or was torn.                                *)
Right(d) ==
    /\ d.id \in 1 .. Len(arrived)
    /\ \/ d.id \in torn
       \/ d.first = 0 /\ d.len > 0 /\ d.len + 4 = arrived[d.id].len /\ ~arrived[d.id].bad

(* What was delivered came before what waits.                              *)
DeliveredRight ==
    \A i \in 1 .. Len(delivered) :
        /\ Right(delivered[i])
        /\ \A j \in 1 .. i - 1 : delivered[j].id < delivered[i].id
        /\ \A j \in 1 .. Len(fifo) : delivered[i].id < fifo[j].id

WireRight ==
    \A i \in 1 .. Len(wire) :
        /\ wire[i].id \in 1 .. Len(sent)
        /\ wire[i].len = sent[wire[i].id]
        /\ \A j \in 1 .. i - 1 : wire[j].id < wire[i].id

FrameInv == FrameTypes /\ FifoRight /\ DeliveredRight /\ WireRight

LEMMA FrameInit == EthInit => FrameInv
<1> SUFFICES ASSUME EthInit PROVE FrameInv
  OBVIOUS
<1>1. chip \in {"smsc", "lan"} /\ arrived = <<>> /\ fifo = <<>> /\ delivered = <<>> /\ sent = <<>>
      /\ wire = <<>> /\ txEnd = 0
  BY EthernetConstants DEF EthInit
<1> QED BY <1>1 DEF FrameInv, FrameTypes, FifoRight, DeliveredRight, WireRight, FrameBufferSize, Waits, Right

LEMMA ArrivalKeeps ==
    ASSUME FrameInv, FrameArrives
    PROVE  FrameInv'
<1>1. PICK n \in WireLengths, b \in BOOLEAN :
         /\ arrived' = Append(arrived, [len |-> n, bad |-> b])
         /\ fifo' = Append(fifo, [id |-> Len(arrived) + 1, len |-> n, bad |-> b, at |-> 0])
  BY DEF FrameArrives
<1>a. PICK a, f : /\ a = [len |-> n, bad |-> b]
                  /\ f = [id |-> Len(arrived) + 1, len |-> n, bad |-> b, at |-> 0]
  OBVIOUS
<1>2. /\ a \in Frames /\ f \in Waiting /\ f.id = Len(arrived) + 1 /\ f.at = 0
      /\ f.len = a.len /\ f.bad = a.bad
  BY <1>a, EthernetConstants DEF Frames, Waiting, FrameInv, FrameTypes, FrameBufferSize
<1>3. UNCHANGED <<chip, torn, delivered, sent, wire, txEnd>>
  BY DEF FrameArrives, tx
<1>4. arrived' = Append(arrived, a) /\ fifo' = Append(fifo, f)
  BY <1>1, <1>a
<1>5. /\ arrived' \in Seq(Frames) /\ Len(arrived') = Len(arrived) + 1
      /\ \A i \in 1 .. Len(arrived) : arrived'[i] = arrived[i]
      /\ arrived'[Len(arrived) + 1] = a
  BY <1>2, <1>4 DEF FrameInv, FrameTypes
<1>6. /\ fifo' \in Seq(Waiting) /\ Len(fifo') = Len(fifo) + 1
      /\ \A i \in 1 .. Len(fifo) : fifo'[i] = fifo[i]
      /\ fifo'[Len(fifo) + 1] = f
  BY <1>2, <1>4 DEF FrameInv, FrameTypes
<1>7. Len(arrived) \in Nat /\ Len(fifo) \in Nat /\ Len(delivered) \in Nat
  BY DEF FrameInv, FrameTypes
<1>8. FrameTypes'
  BY <1>3, <1>5, <1>6 DEF FrameInv, FrameTypes
<1>9. Waits(f)'
  BY <1>2, <1>5, <1>7 DEF Waits
<1>10. \A i \in 1 .. Len(fifo) : Waits(fifo[i])' /\ fifo[i].id < f.id
  <2> SUFFICES ASSUME NEW i \in 1 .. Len(fifo) PROVE Waits(fifo[i])' /\ fifo[i].id < f.id
    OBVIOUS
  <2>1. Waits(fifo[i])
    BY DEF FrameInv, FifoRight
  <2>2. /\ fifo'[i] = fifo[i] /\ fifo[i].id \in 1 .. Len(arrived)
        /\ arrived'[fifo[i].id] = arrived[fifo[i].id]
    BY <1>5, <1>6, <2>1 DEF Waits
  <2>3. Waits(fifo[i])'
    BY <1>3, <1>5, <1>7, <2>1, <2>2 DEF Waits
  <2> QED BY <1>2, <1>7, <2>2, <2>3
<1>11. FifoRight'
  <2>1. ASSUME NEW i \in 1 .. Len(fifo')
        PROVE  Waits(fifo[i])' /\ \A j \in 1 .. i - 1 : fifo'[j].id < fifo'[i].id
    <3>1. CASE i = Len(fifo) + 1
      <4>1. \A j \in 1 .. i - 1 : j \in 1 .. Len(fifo)
        BY <1>7, <3>1
      <4>2. Waits(fifo[i])'
        BY <1>6, <1>9, <3>1 DEF Waits
      <4> QED BY <1>6, <1>10, <3>1, <4>1, <4>2
    <3>2. CASE i \in 1 .. Len(fifo)
      <4>1. \A j \in 1 .. i - 1 : j \in 1 .. Len(fifo)
        BY <1>7, <3>2
      <4>2. \A j \in 1 .. i - 1 : fifo[j].id < fifo[i].id
        BY <3>2 DEF FrameInv, FifoRight
      <4>3. Waits(fifo[i])'
        BY <1>10, <3>2
      <4> QED BY <1>6, <3>2, <4>1, <4>2, <4>3
    <3> QED BY <1>6, <1>7, <3>1, <3>2
  <2> QED BY <2>1 DEF FifoRight
<1>12. DeliveredRight'
  <2> SUFFICES ASSUME NEW i \in 1 .. Len(delivered)
      PROVE  /\ Right(delivered[i])'
             /\ \A j \in 1 .. i - 1 : delivered[j].id < delivered[i].id
             /\ \A j \in 1 .. Len(fifo') : delivered[i].id < fifo'[j].id
    BY <1>3 DEF DeliveredRight
  <2>1. Right(delivered[i]) /\ delivered[i].id \in 1 .. Len(arrived)
    BY DEF FrameInv, DeliveredRight, Right
  <2>2. arrived'[delivered[i].id] = arrived[delivered[i].id]
    BY <1>5, <2>1
  <2>3. \A j \in 1 .. Len(fifo') : delivered[i].id < fifo'[j].id
    <3>1. \A j \in 1 .. Len(fifo) : delivered[i].id < fifo[j].id
      BY DEF FrameInv, DeliveredRight
    <3>2. delivered[i].id < f.id
      BY <1>2, <1>7, <2>1
    <3>3. \A j \in 1 .. Len(fifo') : j \in 1 .. Len(fifo) \/ j = Len(fifo) + 1
      BY <1>6, <1>7
    <3> QED BY <1>6, <3>1, <3>2, <3>3
  <2>4. Right(delivered[i])'
    BY <1>3, <1>5, <1>7, <2>1, <2>2 DEF Right
  <2> QED BY <2>3, <2>4 DEF FrameInv, DeliveredRight
<1>13. WireRight'
  BY <1>3 DEF FrameInv, WireRight
<1> QED BY <1>8, <1>11, <1>12, <1>13 DEF FrameInv

(* The first frame leaves the chip.                                        *)
LEMMA FrameLeaves ==
    ASSUME FrameInv, fifo # <<>>, fifo' = Tail(fifo), UNCHANGED <<arrived, torn>>
    PROVE  /\ fifo' \in Seq(Waiting) /\ FifoRight'
           /\ Head(fifo) \in Waiting /\ Waits(Head(fifo))
           /\ \A i \in 1 .. Len(fifo') : Head(fifo).id < fifo'[i].id
           /\ \A i \in 1 .. Len(delivered) :
                 /\ delivered[i].id < Head(fifo).id
                 /\ \A j \in 1 .. Len(fifo') : delivered[i].id < fifo'[j].id
<1>1. Len(fifo) \in Nat \ {0} /\ Head(fifo) = fifo[1] /\ Head(fifo) \in Waiting
  BY DEF FrameInv, FrameTypes
<1>2. /\ fifo' \in Seq(Waiting) /\ Len(fifo') = Len(fifo) - 1
      /\ \A i \in 1 .. Len(fifo') : fifo'[i] = fifo[i + 1]
  BY <1>1 DEF FrameInv, FrameTypes
<1>3. Waits(Head(fifo))
  BY <1>1 DEF FrameInv, FifoRight
<1>4. \A i \in 1 .. Len(fifo') : i + 1 \in 1 .. Len(fifo) /\ 1 \in 1 .. (i + 1) - 1
  BY <1>1, <1>2
<1>5. \A i \in 1 .. Len(fifo') : Head(fifo).id < fifo'[i].id
  BY <1>1, <1>2, <1>4 DEF FrameInv, FifoRight
<1>6. FifoRight'
  <2>1. ASSUME NEW i \in 1 .. Len(fifo')
        PROVE  Waits(fifo[i])' /\ \A j \in 1 .. i - 1 : fifo'[j].id < fifo'[i].id
    <3>1. Waits(fifo[i + 1]) /\ fifo'[i] = fifo[i + 1]
      BY <1>2, <1>4 DEF FrameInv, FifoRight
    <3>2. ASSUME NEW j \in 1 .. i - 1 PROVE fifo'[j].id < fifo'[i].id
      <4>1. i + 1 \in 1 .. Len(fifo) /\ j + 1 \in 1 .. (i + 1) - 1 /\ j \in 1 .. Len(fifo')
        BY <1>1, <1>2
      <4>2. fifo[j + 1].id < fifo[i + 1].id
        BY <4>1 DEF FrameInv, FifoRight
      <4> QED BY <1>2, <4>1, <4>2
    <3> QED BY <3>1, <3>2 DEF Waits
  <2> QED BY <2>1 DEF FifoRight
<1>7. ASSUME NEW i \in 1 .. Len(delivered)
      PROVE  /\ delivered[i].id < Head(fifo).id
             /\ \A j \in 1 .. Len(fifo') : delivered[i].id < fifo'[j].id
  <2>1. \A j \in 1 .. Len(fifo) : delivered[i].id < fifo[j].id
    BY DEF FrameInv, DeliveredRight
  <2>2. 1 \in 1 .. Len(fifo)
    BY <1>1
  <2> QED BY <1>1, <1>2, <1>4, <2>1, <2>2
<1> QED BY <1>1, <1>2, <1>3, <1>5, <1>6, <1>7

LEMMA ReceptionKeeps ==
    ASSUME FrameInv, FrameReceived
    PROVE  FrameInv'
<1>a. PICK f : f = Head(fifo)
  OBVIOUS
<1>1. /\ fifo # <<>> /\ fifo' = Tail(fifo)
      /\ UNCHANGED <<chip, arrived, torn, sent, wire, txEnd>>
  BY DEF FrameReceived, tx
<1>2. PICK b \in IF f.at = 0 THEN {f.bad} ELSE BOOLEAN, n \in IF f.at = 0 THEN {f.len} ELSE TailLengths :
         delivered' = IF Accepted(ChipHeader + f.len - f.at, b, n)
                      THEN Append(delivered, [id |-> f.id, first |-> f.at + RxHeader - ChipHeader,
                                              len |-> n - 4])
                      ELSE delivered
  BY <1>a DEF FrameReceived
<1>b. PICK d : d = [id |-> f.id, first |-> f.at + RxHeader - ChipHeader, len |-> n - 4]
  OBVIOUS
<1>3. /\ fifo' \in Seq(Waiting) /\ FifoRight' /\ f \in Waiting /\ Waits(f)
      /\ \A i \in 1 .. Len(fifo') : f.id < fifo'[i].id
      /\ \A i \in 1 .. Len(delivered) :
            delivered[i].id < f.id /\ \A j \in 1 .. Len(fifo') : delivered[i].id < fifo'[j].id
  BY <1>1, <1>a, FrameLeaves
<1>4. WireRight'
  BY <1>1 DEF FrameInv, WireRight
<1>5. \A i \in 1 .. Len(delivered) : Right(delivered[i])
  BY DEF FrameInv, DeliveredRight
<1>6. CASE delivered' = delivered
  <2>1. FrameTypes'
    BY <1>1, <1>3, <1>6 DEF FrameInv, FrameTypes
  <2>2. DeliveredRight'
    BY <1>1, <1>3, <1>6 DEF FrameInv, DeliveredRight, Right
  <2> QED BY <1>3, <1>4, <2>1, <2>2 DEF FrameInv
<1>7. CASE Accepted(ChipHeader + f.len - f.at, b, n) /\ delivered' = Append(delivered, d)
  <2>1. n \in Nat /\ n > 4 /\ ~b
    BY <1>3, <1>7, EthernetConstants DEF Accepted, Waiting
  <2>2. d \in Received /\ d.id = f.id /\ d.first = f.at /\ d.len = n - 4
    BY <1>3, <1>b, <2>1 DEF Received, Waiting, RxHeader, ChipHeader
  <2>3. Right(d)'
    <3>1. f.at = 0 => n = f.len /\ b = f.bad
      BY <1>2
    <3>2. d.id \in 1 .. Len(arrived) /\ f.len = arrived[d.id].len /\ f.bad = arrived[d.id].bad
          /\ (f.at # 0 => d.id \in torn)
      BY <1>3, <2>2 DEF Waits
    <3>3. f.at = 0 => d.first = 0 /\ d.len > 0 /\ d.len + 4 = arrived[d.id].len /\ ~arrived[d.id].bad
      BY <2>1, <2>2, <3>1, <3>2
    <3> QED BY <1>1, <3>2, <3>3 DEF Right
  <2>4. /\ delivered' \in Seq(Received) /\ Len(delivered') = Len(delivered) + 1 /\ Len(delivered) \in Nat
        /\ \A i \in 1 .. Len(delivered) : delivered'[i] = delivered[i]
        /\ delivered'[Len(delivered) + 1] = d
    BY <1>7, <2>2 DEF FrameInv, FrameTypes
  <2>5. FrameTypes'
    BY <1>1, <1>3, <2>4 DEF FrameInv, FrameTypes
  <2>6. DeliveredRight'
    <3> SUFFICES ASSUME NEW i \in 1 .. Len(delivered')
        PROVE  /\ Right(delivered[i])'
               /\ \A j \in 1 .. i - 1 : delivered'[j].id < delivered'[i].id
               /\ \A j \in 1 .. Len(fifo') : delivered'[i].id < fifo'[j].id
      BY DEF DeliveredRight
    <3>1. CASE i = Len(delivered) + 1
      <4>1. delivered'[i] = d /\ Right(delivered[i])'
        BY <2>3, <2>4, <3>1 DEF Right
      <4>2. \A j \in 1 .. i - 1 : j \in 1 .. Len(delivered)
        BY <2>4, <3>1
      <4>3. \A j \in 1 .. i - 1 : delivered'[j].id < d.id
        BY <1>3, <2>2, <2>4, <4>2
      <4> QED BY <1>3, <2>2, <4>1, <4>3
    <3>2. CASE i \in 1 .. Len(delivered)
      <4>1. delivered'[i] = delivered[i] /\ \A j \in 1 .. i - 1 : delivered'[j] = delivered[j]
        BY <2>4, <3>2
      <4>2. Right(delivered[i])'
        BY <1>1, <1>5, <3>2, <4>1 DEF Right
      <4>3. \A j \in 1 .. i - 1 : delivered[j].id < delivered[i].id
        BY <3>2 DEF FrameInv, DeliveredRight
      <4> QED BY <1>3, <3>2, <4>1, <4>2, <4>3
    <3> QED BY <2>4, <3>1, <3>2
  <2> QED BY <1>3, <1>4, <2>5, <2>6 DEF FrameInv
<1> QED BY <1>2, <1>b, <1>6, <1>7

(* A transfer that fails leaves the frame, takes it, or tears it.          *)
LEMMA FailureKeeps ==
    ASSUME FrameInv, ReceptionFails
    PROVE  FrameInv'
<1>a. PICK f : f = Head(fifo)
  OBVIOUS
<1>1. fifo # <<>> /\ UNCHANGED <<chip, arrived, delivered, sent, wire, txEnd>>
  BY DEF ReceptionFails, tx
<1>2. WireRight'
  BY <1>1 DEF FrameInv, WireRight
<1>3. CASE UNCHANGED <<fifo, torn>>
  BY <1>1, <1>2, <1>3 DEF FrameInv, FrameTypes, FifoRight, DeliveredRight, Waits, Right
<1>4. CASE fifo' = Tail(fifo) /\ UNCHANGED torn
  <2>1. /\ fifo' \in Seq(Waiting) /\ FifoRight'
        /\ \A i \in 1 .. Len(delivered) : \A j \in 1 .. Len(fifo') : delivered[i].id < fifo'[j].id
    BY <1>1, <1>4, FrameLeaves
  <2>2. FrameTypes'
    BY <1>1, <2>1 DEF FrameInv, FrameTypes
  <2>3. DeliveredRight'
    BY <1>1, <1>4, <2>1 DEF FrameInv, DeliveredRight, Right
  <2> QED BY <1>2, <2>1, <2>2, <2>3 DEF FrameInv
<1>5. CASE \E k \in 1 .. FrameBufferSize \div PacketSize :
              /\ fifo' = <<[f EXCEPT !.at = k * PacketSize]>> \o Tail(fifo)
              /\ torn' = torn \cup {f.id}
  <2>1. PICK k \in 1 .. FrameBufferSize \div PacketSize :
             fifo' = <<[f EXCEPT !.at = k * PacketSize]>> \o Tail(fifo) /\ torn' = torn \cup {f.id}
    BY <1>5
  <2>a. PICK g : g = [f EXCEPT !.at = k * PacketSize]
    OBVIOUS
  <2>2. Len(fifo) \in Nat \ {0} /\ f = fifo[1] /\ f \in Waiting /\ Waits(f)
    BY <1>1, <1>a DEF FrameInv, FrameTypes, FifoRight
  <2>3. g \in Waiting /\ g.id = f.id /\ g.len = f.len /\ g.bad = f.bad
    BY <2>2, <2>a DEF Waiting, FrameBufferSize, PacketSize
  <2>4. /\ fifo' \in Seq(Waiting) /\ Len(fifo') = Len(fifo) /\ fifo'[1] = g
        /\ \A i \in 2 .. Len(fifo) : fifo'[i] = fifo[i]
    BY <1>1, <2>1, <2>2, <2>3, <2>a DEF FrameInv, FrameTypes
  <2>5. \A i \in 1 .. Len(fifo) : fifo'[i].id = fifo[i].id
    <3>1. \A i \in 1 .. Len(fifo) : i = 1 \/ i \in 2 .. Len(fifo)
      BY <2>2
    <3> QED BY <2>2, <2>3, <2>4, <3>1
  <2>6. Waits(g)'
    BY <1>1, <2>1, <2>2, <2>3 DEF Waits
  <2>7. FifoRight'
    <3>1. ASSUME NEW i \in 1 .. Len(fifo')
          PROVE  Waits(fifo[i])' /\ \A j \in 1 .. i - 1 : fifo'[j].id < fifo'[i].id
      <4>1. Waits(fifo[i])'
        <5>1. CASE i = 1
          BY <2>4, <2>6, <5>1 DEF Waits
        <5>2. CASE i # 1
          <6>1. i \in 2 .. Len(fifo) /\ i \in 1 .. Len(fifo)
            BY <2>2, <2>4, <5>2
          <6>2. fifo'[i] = fifo[i] /\ Waits(fifo[i])
            BY <2>4, <6>1 DEF FrameInv, FifoRight
          <6> QED BY <1>1, <2>1, <6>2 DEF Waits
        <5> QED BY <5>1, <5>2
      <4>2. \A j \in 1 .. i - 1 : fifo[j].id < fifo[i].id /\ j \in 1 .. Len(fifo)
        BY <2>2, <2>4 DEF FrameInv, FifoRight
      <4> QED BY <2>4, <2>5, <4>1, <4>2
    <3> QED BY <3>1 DEF FifoRight
  <2>8. DeliveredRight'
    <3> SUFFICES ASSUME NEW i \in 1 .. Len(delivered)
        PROVE  /\ Right(delivered[i])'
               /\ \A j \in 1 .. i - 1 : delivered[j].id < delivered[i].id
               /\ \A j \in 1 .. Len(fifo') : delivered[i].id < fifo'[j].id
      BY <1>1 DEF DeliveredRight
    <3>1. /\ Right(delivered[i])
          /\ \A j \in 1 .. i - 1 : delivered[j].id < delivered[i].id
          /\ \A j \in 1 .. Len(fifo) : delivered[i].id < fifo[j].id
      BY DEF FrameInv, DeliveredRight
    <3>2. Right(delivered[i])'
      BY <1>1, <2>1, <3>1 DEF Right
    <3> QED BY <2>4, <2>5, <3>1, <3>2
  <2>9. FrameTypes'
    BY <1>1, <2>4 DEF FrameInv, FrameTypes
  <2> QED BY <1>2, <2>7, <2>8, <2>9 DEF FrameInv
<1> QED BY <1>a, <1>3, <1>4, <1>5 DEF ReceptionFails

(* The length field holds every length that fits.                          *)
LEMMA FieldRight ==
    ASSUME NEW n \in Nat, chip \in {"smsc", "lan"}, Fits(n)
    PROVE  LengthField(n) = n /\ n + 8 <= FrameBufferSize
<1>1. 2^11 = 2048 /\ 2^20 = 1048576
  OBVIOUS
<1>2. n < 2048
  BY DEF Fits, FrameBufferSize
<1>3. n % 2048 = n /\ n % 1048576 = n
  BY <1>2
<1> QED BY <1>1, <1>3 DEF Fits, LengthField, FrameBufferSize

LEMMA SendingKeeps ==
    ASSUME FrameInv, NEW n \in SendLengths, SendFrame(n)
    PROVE  FrameInv'
<1>1. UNCHANGED <<chip, arrived, fifo, torn, delivered>>
  BY DEF SendFrame, rx
<1>2. FifoRight' /\ DeliveredRight'
  BY <1>1 DEF FrameInv, FifoRight, DeliveredRight, Waits, Right
<1>3. CASE ~Fits(n)
  <2>1. UNCHANGED <<sent, wire, txEnd>>
    BY <1>3 DEF SendFrame, tx
  <2> QED BY <1>1, <1>2, <2>1 DEF FrameInv, FrameTypes, WireRight
<1>4. CASE Fits(n)
  <2> DEFINE o == [id |-> Len(sent'), len |-> LengthField(n)]
  <2>1. /\ sent' = Append(sent, n)
        /\ txEnd' = IF n + 8 > txEnd THEN n + 8 ELSE txEnd
    BY <1>4 DEF SendFrame
  <2>2. wire' = wire \/ wire' = Append(wire, o)
    BY <1>4 DEF SendFrame
  <2>3. n \in Nat /\ LengthField(n) = n /\ n + 8 <= FrameBufferSize
    BY <1>4, EthernetConstants, FieldRight DEF FrameInv, FrameTypes
  <2>4. /\ sent' \in Seq(Nat) /\ Len(sent') = Len(sent) + 1 /\ sent'[Len(sent) + 1] = n
        /\ \A i \in 1 .. Len(sent) : sent'[i] = sent[i]
        /\ Len(sent) \in Nat /\ Len(wire) \in Nat
    BY <2>1, <2>3 DEF FrameInv, FrameTypes
  <2>5. txEnd' \in Nat /\ txEnd' <= FrameBufferSize
    BY <2>1, <2>3 DEF FrameInv, FrameTypes, FrameBufferSize
  <2>6. o \in OnWire /\ o.id = Len(sent) + 1 /\ o.len = n
    BY <2>3, <2>4 DEF OnWire
  <2> HIDE DEF o
  <2>7. \A i \in 1 .. Len(wire) : wire[i].id \in 1 .. Len(sent)
    BY DEF FrameInv, WireRight
  <2>8. CASE wire' = wire
    <3>1. FrameTypes'
      BY <1>1, <2>4, <2>5, <2>8 DEF FrameInv, FrameTypes
    <3>2. WireRight'
      <4> SUFFICES ASSUME NEW i \in 1 .. Len(wire)
          PROVE  /\ wire[i].id \in 1 .. Len(sent')
                 /\ wire[i].len = sent'[wire[i].id]
                 /\ \A j \in 1 .. i - 1 : wire[j].id < wire[i].id
        BY <2>8 DEF WireRight
      <4>1. wire[i].id \in 1 .. Len(sent) /\ wire[i].len = sent[wire[i].id]
            /\ \A j \in 1 .. i - 1 : wire[j].id < wire[i].id
        BY DEF FrameInv, WireRight
      <4>2. wire[i].id \in 1 .. Len(sent') /\ sent'[wire[i].id] = sent[wire[i].id]
        BY <2>4, <4>1
      <4> QED BY <4>1, <4>2
    <3> QED BY <1>2, <3>1, <3>2 DEF FrameInv
  <2>9. CASE wire' = Append(wire, o)
    <3>1. /\ wire' \in Seq(OnWire) /\ Len(wire') = Len(wire) + 1 /\ wire'[Len(wire) + 1] = o
          /\ \A i \in 1 .. Len(wire) : wire'[i] = wire[i]
      BY <2>6, <2>9 DEF FrameInv, FrameTypes
    <3>2. FrameTypes'
      BY <1>1, <2>4, <2>5, <3>1 DEF FrameInv, FrameTypes
    <3>3. WireRight'
      <4> SUFFICES ASSUME NEW i \in 1 .. Len(wire')
          PROVE  /\ wire'[i].id \in 1 .. Len(sent')
                 /\ wire'[i].len = sent'[wire'[i].id]
                 /\ \A j \in 1 .. i - 1 : wire'[j].id < wire'[i].id
        BY DEF WireRight
      <4>1. CASE i = Len(wire) + 1
        <5>1. wire'[i] = o /\ o.id \in 1 .. Len(sent') /\ o.len = sent'[o.id]
          BY <2>4, <2>6, <3>1, <4>1
        <5>2. \A j \in 1 .. i - 1 : j \in 1 .. Len(wire)
          BY <2>4, <4>1
        <5>3. \A j \in 1 .. i - 1 : wire'[j].id < o.id
          BY <2>4, <2>6, <2>7, <3>1, <5>2
        <5> QED BY <5>1, <5>3
      <4>2. CASE i \in 1 .. Len(wire)
        <5>1. wire[i].id \in 1 .. Len(sent) /\ wire[i].len = sent[wire[i].id]
              /\ \A j \in 1 .. i - 1 : wire[j].id < wire[i].id
          BY <4>2 DEF FrameInv, WireRight
        <5>2. wire[i].id \in 1 .. Len(sent') /\ sent'[wire[i].id] = sent[wire[i].id]
          BY <2>4, <5>1
        <5>3. wire'[i] = wire[i] /\ \A j \in 1 .. i - 1 : wire'[j] = wire[j]
          BY <2>4, <3>1, <4>2
        <5> QED BY <5>1, <5>2, <5>3
      <4> QED BY <2>4, <3>1, <4>1, <4>2
    <3> QED BY <1>2, <3>2, <3>3 DEF FrameInv
  <2> QED BY <2>2, <2>8, <2>9
<1> QED BY <1>3, <1>4

LEMMA FrameNext == FrameInv /\ [EthNext]_ethVars => FrameInv'
<1> SUFFICES ASSUME FrameInv, [EthNext]_ethVars PROVE FrameInv'
  OBVIOUS
<1>1. CASE FrameArrives \/ FrameReceived \/ ReceptionFails \/ \E n \in SendLengths : SendFrame(n)
  BY <1>1, ArrivalKeeps, ReceptionKeeps, FailureKeeps, SendingKeeps
<1>2. CASE ~(FrameArrives \/ FrameReceived \/ ReceptionFails \/ \E n \in SendLengths : SendFrame(n))
  <2>1. UNCHANGED <<chip, arrived, fifo, torn, delivered, sent, wire, txEnd>>
    BY <1>2 DEF EthNext, ethVars, frames, rx, tx, ResetEnds, PhyResetEnds, PhyAccess, LinkChanges, DoRead,
                DoModify, DoWrite, CheckId, DoWait, MessageFails, Configured, IsLinkUp, LinkIsKnown,
                ReceiveFrame, NothingReceived
  <2> QED BY <2>1 DEF FrameInv, FrameTypes, FifoRight, DeliveredRight, WireRight, Waits, Right
<1> QED BY <1>1, <1>2

(* SendFrame and ReceiveFrame of both drivers, for any number of frames    *)
(* and failed transfers and any claim that the bytes of a torn frame make: *)
(* frames are delivered in order and at most once, and all of them but     *)
(* those that a failed transfer has torn are delivered whole and without   *)
(* error; what the chip sends is what callers gave, until a transfer to it *)
(* fails half-way; the transmit buffer is not overrun.                     *)
THEOREM FramesTheorem == EthSpec => []FramesIntact
<1>1. FrameInv => FramesIntact
  <2> SUFFICES ASSUME FrameInv PROVE FramesIntact
    OBVIOUS
  <2>1. DOMAIN delivered = 1 .. Len(delivered) /\ DOMAIN wire = 1 .. Len(wire)
    BY DEF FrameInv, FrameTypes
  <2> QED BY <2>1 DEF FrameInv, FrameTypes, DeliveredRight, Right, WireRight, FramesIntact
<1> QED BY <1>1, FrameInit, FrameNext, PTL DEF EthSpec

-----------------------------------------------------------------------------
(* Registers: what Configure has done so far, and what IsLinkUp knows.     *)

(* Register accesses, and where LAN7800Configure is: the number of its     *)
(* next access, and 56 when it is done.                                    *)
Accesses ==
    {LAN7800Configure[i] : i \in 1 .. 55} \cup {SMSC951xConfigure[i] : i \in 1 .. 5}
    \cup {PHYRead("status")[i] : i \in 1 .. 4}

Stage == IF doing = "configure" THEN 56 - Len(todo) ELSE 56

RegTypes ==
    /\ chip \in {"smsc", "lan"}
    /\ doing \in {"configure", "link", "receive", "idle", "off"}
    /\ todo \in Seq(Accesses)
    /\ reg = [r \in Registers |-> reg[r]]
    /\ phy = [i \in {"led"} |-> phy[i]]
    /\ link \in BOOLEAN /\ dropped \in BOOLEAN /\ seen \subseteq BOOLEAN /\ past \subseteq BOOLEAN

(* What is left to do is the end of the function that runs.                *)
Following ==
    /\ doing \in {"idle", "receive", "off"} => todo = <<>>
    /\ doing = "link" =>
          /\ Len(todo) <= 4
          /\ \A i \in 1 .. Len(todo) : todo[i] = PHYRead("status")[4 - Len(todo) + i]
    /\ doing = "configure" /\ chip = "lan" =>
          /\ Len(todo) <= 55
          /\ \A i \in 1 .. Len(todo) : todo[i] = LAN7800Configure[55 - Len(todo) + i]
    /\ doing = "configure" /\ chip = "smsc" =>
          /\ Len(todo) <= 5
          /\ \A i \in 1 .. Len(todo) : todo[i] = SMSC951xConfigure[5 - Len(todo) + i]

(* The reset of the chip is over before the first register is written, and *)
(* does not start again.                                                   *)
ResetOver(k) ==
    /\ k = 5 => "LRST" \in val
    /\ k = 6 => \/ "LRST" \in reg["HW_CFG"]
                \/ reg["RFE_CTL"] = {} /\ reg["PMT_CTL"] = {"READY"} /\ reg["MII_ACC"] = {}
    /\ k \in {14, 15} => "LRST" \notin val
    /\ k = 15 => "MEF" \notin val
    /\ k >= 7 => "LRST" \notin reg["HW_CFG"]
    /\ k >= 16 => "MEF" \notin reg["HW_CFG"]

AddressSet(k) ==
    /\ k >= 8 => reg["RX_ADDRL"] = {"mac-lo"}
    /\ k >= 9 => reg["RX_ADDRH"] = {"mac-hi"}
    /\ k >= 10 => reg["MAF_LO"] = {"mac-lo"}
    /\ k >= 11 => reg["MAF_HI"] = {"mac-hi", "VALID"}

(* The filter starts from what the reset has left.                         *)
FilterSet(k) ==
    /\ k \in 7 .. 27 => reg["RFE_CTL"] = {}
    /\ k = 26 => val = {}
    /\ k = 27 => val = {"BCAST", "PERFECT"}
    /\ k >= 28 => reg["RFE_CTL"] = {"BCAST", "PERFECT"}

PollsAnswered(k) ==
    /\ k = 18 => "BIR" \notin val
    /\ k >= 19 => "BIR" \notin reg["USB_CFG0"]

PhyReset(k) ==
    /\ k \in 7 .. 30 => reg["PMT_CTL"] = {"READY"}
    /\ k = 29 => val = {"READY"}
    /\ k = 30 => val = {"READY", "PHY_RST"}
    /\ k = 31 => reg["PMT_CTL"] \in {{"PHY_RST"}, {"READY"}}
    /\ k >= 32 => reg["PMT_CTL"] = {"READY"}

SwitchedOn(k) ==
    /\ k = 37 => "TXEN" \in val
    /\ k >= 38 => "TXEN" \in reg["MAC_TX"]
    /\ k = 40 => "EN" \in val
    /\ k >= 41 => "EN" \in reg["FCT_TX_CTL"]
    /\ k = 43 => "RXEN" \in val
    /\ k >= 44 => "RXEN" \in reg["MAC_RX"]
    /\ k = 46 => "EN" \in val
    /\ k >= 47 => "EN" \in reg["FCT_RX_CTL"]

LedsOn == {"link1000", "link10-100"}

(* The PHY is read, changed and written back, each access after the one    *)
(* before it has ended.                                                    *)
LedsSet(k) ==
    /\ k = 31 /\ reg["PMT_CTL"] = {"READY"} => phy["led"] = {"default"}
    /\ k \in 32 .. 54 => phy["led"] = {"default"}
    /\ k \in 7 .. 48 => reg["MII_ACC"] = {}
    /\ k = 49 => \/ reg["MII_ACC"] = {"BUSY", "led"}
                 \/ reg["MII_ACC"] = {"led"} /\ reg["MII_DATA"] = {"default"}
    /\ k \in 50 .. 54 => reg["MII_ACC"] = {"led"}
    /\ k = 50 => reg["MII_DATA"] = {"default"}
    /\ k = 51 => val = {"default"}
    /\ k \in {52, 53} => val = LedsOn
    /\ k \in {54, 55} => reg["MII_DATA"] = LedsOn
    /\ k = 55 => \/ reg["MII_ACC"] = {"BUSY", "WRITE", "led"}
                 \/ reg["MII_ACC"] = {"WRITE", "led"} /\ phy["led"] = LedsOn
    /\ k = 56 => /\ phy["led"] = LedsOn
                 /\ reg["MII_ACC"] \in {{"WRITE", "led"}, {"BUSY", "status"}, {"status"}}

LanRight(k) ==
    /\ ResetOver(k) /\ AddressSet(k) /\ FilterSet(k) /\ PollsAnswered(k)
    /\ PhyReset(k) /\ SwitchedOn(k) /\ LedsSet(k)

(* The driver of the other chip writes five registers, which stay.         *)
SmscStage == IF doing = "configure" THEN 6 - Len(todo) ELSE 6

SmscRight(k) ==
    /\ "LRST" \notin reg["HW_CFG"] /\ "PHY_RST" \notin reg["PMT_CTL"]
    /\ k >= 2 => reg["ADDRH"] = {"mac-hi"}
    /\ k >= 3 => reg["ADDRL"] = {"mac-lo"}
    /\ k >= 5 => reg["MAC_CR"] = {"RCVOWN", "TXEN", "RXEN"}
    /\ k >= 6 => reg["TX_CFG"] = {"ON"}

(* What a value of the PHY's status tells is right.                        *)
Told(v) ==
    /\ "link" \in v => TRUE \in seen
    /\ "link" \notin v => FALSE \in past \cup seen

(* The PHY does not remember a link that was lost before the call.         *)
Fresh == dropped => FALSE \in seen

(* IsLinkUp waits for the access that an earlier call may have left, and   *)
(* for its own.  What the PHY remembers happened since the last answer.    *)
LinkRight ==
    /\ doing \in {"configure", "off"} => answer = "failed" /\ FALSE \in past
    /\ dropped => FALSE \in past \cup seen
    /\ link \in seen \/ FALSE \in past
    /\ doing = "link" =>
          /\ link \in seen
          /\ Len(todo) = 3 => "BUSY" \notin reg["MII_ACC"]
          /\ Len(todo) = 2 => \/ reg["MII_ACC"] = {"BUSY", "status"}
                              \/ reg["MII_ACC"] = {"status"} /\ Told(reg["MII_DATA"]) /\ Fresh
          /\ Len(todo) = 1 => "BUSY" \notin reg["MII_ACC"] /\ Told(reg["MII_DATA"]) /\ Fresh
          /\ todo = <<>> => Told(val) /\ Fresh
    /\ doing \in {"idle", "receive"} /\ answer # "failed" =>
          /\ link \in seen /\ Fresh
          /\ answer = "up" => TRUE \in seen
          /\ answer = "down" => FALSE \in past \cup seen

RegInv ==
    /\ RegTypes /\ Following /\ LinkRight
    /\ doing # "off" => IF chip = "lan" THEN LanRight(Stage) ELSE SmscRight(SmscStage)

-----------------------------------------------------------------------------
(* The sequences of accesses.                                              *)

LEMMA LanIsSeq ==
    Len(LAN7800Configure) = 55 /\ LAN7800Configure \in Seq(Accesses)
<1>1. /\ LAN7800Configure = [i \in 1 .. 55 |-> LAN7800Configure[i]]
      /\ Len(LAN7800Configure) = 55
  BY DEF LAN7800Configure, ReadReg, ResetHW, InitMACAddress, WriteReg, ReadWriteReg, InitPHY,
            PHYRead, PHYWrite, PHYWaitNotBusy, Store, Modify, WaitReg
<1>2. \A i \in 1 .. 55 : LAN7800Configure[i] \in Accesses
  BY DEF Accesses
<1>3. LAN7800Configure \in Seq(Accesses)
  BY <1>1, <1>2
<1> QED BY <1>1, <1>3

(* Access k of LAN7800Configure does d to register r.                      *)
Makes(k, d, r) == LAN7800Configure[k].do = d /\ LAN7800Configure[k].reg = r

LEMMA LanAccesses1 ==
    /\ Makes(1, "read", "ID_REV") /\ Makes(2, "check", "none")
    /\ Makes(3, "read", "HW_CFG") /\ Makes(4, "modify", "none")
    /\ Makes(5, "store", "HW_CFG") /\ Makes(6, "wait", "HW_CFG")
    /\ Makes(7, "write", "RX_ADDRL") /\ Makes(8, "write", "RX_ADDRH")
    /\ Makes(9, "write", "MAF_LO") /\ Makes(10, "write", "MAF_HI")
    /\ Makes(11, "write", "BURST_CAP")
BY SMT DEF Makes, Op, LAN7800Configure, ReadReg, ResetHW, InitMACAddress, WriteReg, ReadWriteReg, InitPHY,
            PHYRead, PHYWrite, PHYWaitNotBusy, Store, Modify, WaitReg

LEMMA LanAccesses2 ==
    /\ Makes(12, "write", "BULK_IN_DLY") /\ Makes(13, "read", "HW_CFG")
    /\ Makes(14, "modify", "none") /\ Makes(15, "store", "HW_CFG")
    /\ Makes(16, "read", "USB_CFG0") /\ Makes(17, "modify", "none")
    /\ Makes(18, "store", "USB_CFG0") /\ Makes(19, "write", "FCT_RX_FIFO_END")
    /\ Makes(20, "write", "FCT_TX_FIFO_END") /\ Makes(21, "write", "INT_EP_CTL")
    /\ Makes(22, "write", "INT_STS")
BY SMT DEF Makes, Op, LAN7800Configure, ReadReg, ResetHW, InitMACAddress, WriteReg, ReadWriteReg, InitPHY,
            PHYRead, PHYWrite, PHYWaitNotBusy, Store, Modify, WaitReg

LEMMA LanAccesses3 ==
    /\ Makes(23, "write", "FLOW") /\ Makes(24, "write", "FCT_FLOW")
    /\ Makes(25, "read", "RFE_CTL") /\ Makes(26, "modify", "none")
    /\ Makes(27, "store", "RFE_CTL") /\ Makes(28, "read", "PMT_CTL")
    /\ Makes(29, "modify", "none") /\ Makes(30, "store", "PMT_CTL")
    /\ Makes(31, "wait", "PMT_CTL") /\ Makes(32, "read", "MAC_CR")
    /\ Makes(33, "modify", "none")
BY SMT DEF Makes, Op, LAN7800Configure, ReadReg, ResetHW, InitMACAddress, WriteReg, ReadWriteReg, InitPHY,
            PHYRead, PHYWrite, PHYWaitNotBusy, Store, Modify, WaitReg

LEMMA LanAccesses4 ==
    /\ Makes(34, "store", "MAC_CR") /\ Makes(35, "read", "MAC_TX")
    /\ Makes(36, "modify", "none") /\ Makes(37, "store", "MAC_TX")
    /\ Makes(38, "read", "FCT_TX_CTL") /\ Makes(39, "modify", "none")
    /\ Makes(40, "store", "FCT_TX_CTL") /\ Makes(41, "read", "MAC_RX")
    /\ Makes(42, "modify", "none") /\ Makes(43, "store", "MAC_RX")
    /\ Makes(44, "read", "FCT_RX_CTL")
BY SMT DEF Makes, Op, LAN7800Configure, ReadReg, ResetHW, InitMACAddress, WriteReg, ReadWriteReg, InitPHY,
            PHYRead, PHYWrite, PHYWaitNotBusy, Store, Modify, WaitReg

LEMMA LanAccesses5 ==
    /\ Makes(45, "modify", "none") /\ Makes(46, "store", "FCT_RX_CTL")
    /\ Makes(47, "wait", "MII_ACC") /\ Makes(48, "write", "MII_ACC")
    /\ Makes(49, "wait", "MII_ACC") /\ Makes(50, "read", "MII_DATA")
    /\ Makes(51, "modify", "none") /\ Makes(52, "wait", "MII_ACC")
    /\ Makes(53, "store", "MII_DATA") /\ Makes(54, "write", "MII_ACC")
    /\ Makes(55, "wait", "MII_ACC")
BY SMT DEF Makes, Op, LAN7800Configure, ReadReg, ResetHW, InitMACAddress, WriteReg, ReadWriteReg, InitPHY,
            PHYRead, PHYWrite, PHYWaitNotBusy, Store, Modify, WaitReg

(* The bits of the accesses that matter to the properties.                 *)
LEMMA LanBits1 ==
    /\ LAN7800Configure[4].set = {"LRST"} /\ LAN7800Configure[4].mask = {}
    /\ LAN7800Configure[6].set = {} /\ LAN7800Configure[6].mask = {"LRST"}
    /\ LAN7800Configure[7].set = {"mac-lo"}
    /\ LAN7800Configure[8].set = {"mac-hi"}
    /\ LAN7800Configure[9].set = {"mac-lo"}
BY SMT DEF Op, LAN7800Configure, ReadReg, ResetHW, InitMACAddress, WriteReg, ReadWriteReg, InitPHY,
            PHYRead, PHYWrite, PHYWaitNotBusy, Store, Modify, WaitReg

LEMMA LanBits2 ==
    /\ LAN7800Configure[10].set = {"mac-hi", "VALID"}
    /\ LAN7800Configure[14].set = {"LED0", "LED1"} /\ LAN7800Configure[14].mask = {"MEF"}
    /\ LAN7800Configure[17].set = {"BCE"} /\ LAN7800Configure[17].mask = {"BIR"}
    /\ LAN7800Configure[26].set = {"BCAST", "PERFECT"} /\ LAN7800Configure[26].mask = {}
    /\ LAN7800Configure[29].set = {"PHY_RST"} /\ LAN7800Configure[29].mask = {}
BY SMT DEF Op, LAN7800Configure, ReadReg, ResetHW, InitMACAddress, WriteReg, ReadWriteReg, InitPHY,
            PHYRead, PHYWrite, PHYWaitNotBusy, Store, Modify, WaitReg

LEMMA LanBits3 ==
    /\ LAN7800Configure[31].set = {"READY"} /\ LAN7800Configure[31].mask = {"PHY_RST", "READY"}
    /\ LAN7800Configure[36].set = {"TXEN"} /\ LAN7800Configure[36].mask = {}
    /\ LAN7800Configure[39].set = {"EN"} /\ LAN7800Configure[39].mask = {}
    /\ LAN7800Configure[42].set = {"MAX1518", "RXEN"} /\ LAN7800Configure[42].mask = {"MAX"}
    /\ LAN7800Configure[45].set = {"EN"} /\ LAN7800Configure[45].mask = {}
BY SMT DEF Op, LAN7800Configure, ReadReg, ResetHW, InitMACAddress, WriteReg, ReadWriteReg, InitPHY,
            PHYRead, PHYWrite, PHYWaitNotBusy, Store, Modify, WaitReg

LEMMA LanBits4 ==
    /\ LAN7800Configure[48].set = {"BUSY", "led"}
    /\ LAN7800Configure[49].set = {} /\ LAN7800Configure[49].mask = {"BUSY"}
    /\ LAN7800Configure[51].set = {"link1000", "link10-100"} /\ LAN7800Configure[51].mask = {"default"}
    /\ LAN7800Configure[54].set = {"BUSY", "WRITE", "led"}
    /\ LAN7800Configure[55].set = {} /\ LAN7800Configure[55].mask = {"BUSY"}
BY SMT DEF Op, LAN7800Configure, ReadReg, ResetHW, InitMACAddress, WriteReg, ReadWriteReg, InitPHY,
            PHYRead, PHYWrite, PHYWaitNotBusy, Store, Modify, WaitReg

LEMMA SmscAccesses ==
    /\ Len(SMSC951xConfigure) = 5 /\ SMSC951xConfigure \in Seq(Accesses)
    /\ SMSC951xConfigure[1] = Op("write", "ADDRH", {"mac-hi"}, {})
    /\ SMSC951xConfigure[2] = Op("write", "ADDRL", {"mac-lo"}, {})
    /\ SMSC951xConfigure[3] = Op("write", "LED_GPIO_CFG", {"SPD", "LNK", "FDX"}, {})
    /\ SMSC951xConfigure[4] = Op("write", "MAC_CR", {"RCVOWN", "TXEN", "RXEN"}, {})
    /\ SMSC951xConfigure[5] = Op("write", "TX_CFG", {"ON"}, {})
<1>1. SMSC951xConfigure = [i \in 1 .. 5 |-> SMSC951xConfigure[i]]
  BY DEF SMSC951xConfigure, WriteReg
<1>2. \A i \in 1 .. 5 : SMSC951xConfigure[i] \in Accesses
  BY DEF Accesses
<1>3. SMSC951xConfigure \in Seq(Accesses)
  BY <1>1, <1>2
<1> QED BY <1>3, SMT DEF SMSC951xConfigure, WriteReg

LEMMA PhyReadAccesses ==
    /\ SMSC951xPHYRead("status") = PHYRead("status")
    /\ Len(PHYRead("status")) = 4 /\ PHYRead("status") \in Seq(Accesses)
    /\ PHYRead("status")[1] = Op("wait", "MII_ACC", {}, {"BUSY"})
    /\ PHYRead("status")[2] = Op("write", "MII_ACC", {"BUSY", "status"}, {})
    /\ PHYRead("status")[3] = Op("wait", "MII_ACC", {}, {"BUSY"})
    /\ PHYRead("status")[4] = Op("read", "MII_DATA", {}, {})
<1>1. SMSC951xPHYRead("status") = PHYRead("status")
  BY DEF SMSC951xPHYRead, PHYRead
<1>2. PHYRead("status") = [i \in 1 .. 4 |-> PHYRead("status")[i]]
  BY DEF PHYRead, PHYWaitNotBusy, ReadReg, WriteReg, WaitReg
<1>3. \A i \in 1 .. 4 : PHYRead("status")[i] \in Accesses
  BY DEF Accesses
<1>4. \A f : f = [i \in 1 .. 4 |-> f[i]] /\ (\A i \in 1 .. 4 : f[i] \in Accesses) => f \in Seq(Accesses)
  OBVIOUS
<1>5. PHYRead("status") \in Seq(Accesses)
  BY <1>2, <1>3, <1>4
<1> QED BY <1>1, <1>5, SMT DEF PHYRead, PHYWaitNotBusy, ReadReg, WriteReg, WaitReg

LEMMA OpFields ==
    \A d, r, s, t : /\ Op(d, r, s, t).do = d /\ Op(d, r, s, t).reg = r
                    /\ Op(d, r, s, t).set = s /\ Op(d, r, s, t).mask = t
BY DEF Op

(* Which access changes which register.                                    *)
Changes(k, r) == LAN7800Configure[k].do \in {"write", "store"} /\ LAN7800Configure[k].reg = r

LEMMA LanChanges ==
    ASSUME NEW k \in 1 .. 55
    PROVE  /\ Changes(k, "HW_CFG") => k \in {5, 15}
           /\ Changes(k, "RX_ADDRL") => k = 7
           /\ Changes(k, "RX_ADDRH") => k = 8
           /\ Changes(k, "MAF_LO") => k = 9
           /\ Changes(k, "MAF_HI") => k = 10
           /\ Changes(k, "USB_CFG0") => k = 18
           /\ Changes(k, "RFE_CTL") => k = 27
           /\ Changes(k, "PMT_CTL") => k = 30
           /\ Changes(k, "MAC_TX") => k = 37
           /\ Changes(k, "FCT_TX_CTL") => k = 40
           /\ Changes(k, "MAC_RX") => k = 43
           /\ Changes(k, "FCT_RX_CTL") => k = 46
           /\ Changes(k, "MII_ACC") => k \in {48, 54}
           /\ Changes(k, "MII_DATA") => k = 53

<1>1. CASE k \in 1 .. 11
  BY <1>1, LanAccesses1 DEF Changes, Makes
<1>2. CASE k \in 12 .. 22
  BY <1>2, LanAccesses2 DEF Changes, Makes
<1>3. CASE k \in 23 .. 33
  BY <1>3, LanAccesses3 DEF Changes, Makes
<1>4. CASE k \in 34 .. 44
  BY <1>4, LanAccesses4 DEF Changes, Makes
<1>5. CASE k \in 45 .. 55
  BY <1>5, LanAccesses5 DEF Changes, Makes
<1> QED BY <1>1, <1>2, <1>3, <1>4, <1>5

-----------------------------------------------------------------------------
(* One access of a function is made: what it does to the driver's value    *)
(* and to the chip.                                                        *)
Does(a) ==
    /\ phy' = phy
    /\ \/ a.do = "read" /\ val' = reg[a.reg] /\ reg' = reg
       \/ a.do = "modify" /\ val' = (val \ a.mask) \cup a.set /\ reg' = reg
       \/ a.do = "write" /\ val' = val /\ reg' = Written(a.reg, a.set)
       \/ a.do = "store" /\ val' = val /\ reg' = Written(a.reg, val)
       \/ a.do = "wait" /\ reg[a.reg] \cap a.mask = a.set /\ val' = val /\ reg' = reg
       \/ a.do = "check" /\ val' = val /\ reg' = reg

(* PMT_CTL takes a bit back that the driver writes.                        *)
LEMMA WrittenIs ==
    ASSUME RegTypes, NEW r, NEW bits
    PROVE  /\ \A q \in Registers : q # r => Written(r, bits)[q] = reg[q]
           /\ r \in Registers => Written(r, bits)[r] =
                 IF r = "PMT_CTL" /\ "PHY_RST" \in bits THEN bits \ {"READY"} ELSE bits
           /\ Written(r, bits) = [q \in Registers |-> Written(r, bits)[q]]
BY DEF RegTypes, Written

LEMMA Kept ==
    ASSUME RegTypes, NEW k \in 1 .. 55, Does(LAN7800Configure[k]), NEW r \in Registers, ~Changes(k, r)
    PROVE  reg'[r] = reg[r]
<1> DEFINE a == LAN7800Configure[k]
<1>1. reg' = reg \/ (a.do = "write" /\ reg' = Written(a.reg, a.set))
      \/ (a.do = "store" /\ reg' = Written(a.reg, val))
  BY DEF Does
<1>2. a.do \in {"write", "store"} => a.reg # r
  BY DEF Changes
<1> HIDE DEF a
<1>3. \A p, bits : p # r => Written(p, bits)[r] = reg[r]
  BY DEF RegTypes, Written
<1> QED BY <1>1, <1>2, <1>3

LEMMA Changed ==
    ASSUME RegTypes, NEW k \in 1 .. 55, Does(LAN7800Configure[k]), NEW r \in Registers, r # "PMT_CTL"
    PROVE  /\ Makes(k, "write", r) => reg'[r] = LAN7800Configure[k].set
           /\ Makes(k, "store", r) => reg'[r] = val
<1> DEFINE a == LAN7800Configure[k]
<1>1. /\ Makes(k, "write", r) => reg' = Written(r, a.set)
      /\ Makes(k, "store", r) => reg' = Written(r, val)
  BY DEF Does, Makes
<1> HIDE DEF a
<1>2. \A bits : Written(r, bits)[r] = bits
  BY WrittenIs
<1> QED BY <1>1, <1>2 DEF a

LEMMA Valued ==
    ASSUME NEW k \in 1 .. 55, Does(LAN7800Configure[k])
    PROVE  /\ \A r : Makes(k, "read", r) => val' = reg[r]
           /\ \A r : Makes(k, "modify", r) =>
                 val' = (val \ LAN7800Configure[k].mask) \cup LAN7800Configure[k].set
           /\ \A r, d \in {"write", "store", "wait"} : Makes(k, d, r) => val' = val
           /\ \A r : Makes(k, "wait", r) =>
                 reg[r] \cap LAN7800Configure[k].mask = LAN7800Configure[k].set
BY DEF Does, Makes

LEMMA AreRegisters ==
    {"HW_CFG", "RX_ADDRL", "RX_ADDRH", "MAF_LO", "MAF_HI", "USB_CFG0", "RFE_CTL", "PMT_CTL", "MAC_TX",
     "FCT_TX_CTL", "MAC_RX", "FCT_RX_CTL", "MII_ACC", "MII_DATA", "ADDRH", "ADDRL", "MAC_CR", "TX_CFG"}
    \subseteq Registers
BY DEF Registers

LEMMA LanAddress ==
    ASSUME RegTypes, NEW k \in 1 .. 55, Does(LAN7800Configure[k]), AddressSet(k)
    PROVE  AddressSet(k + 1)'
<1>1. /\ k > 7 => reg'["RX_ADDRL"] = reg["RX_ADDRL"]
      /\ k > 8 => reg'["RX_ADDRH"] = reg["RX_ADDRH"]
      /\ k > 9 => reg'["MAF_LO"] = reg["MAF_LO"]
      /\ k > 10 => reg'["MAF_HI"] = reg["MAF_HI"]
  BY Kept, LanChanges, AreRegisters
<1>2. /\ k = 7 => reg'["RX_ADDRL"] = {"mac-lo"}
      /\ k = 8 => reg'["RX_ADDRH"] = {"mac-hi"}
      /\ k = 9 => reg'["MAF_LO"] = {"mac-lo"}
      /\ k = 10 => reg'["MAF_HI"] = {"mac-hi", "VALID"}
  BY Changed, LanAccesses1, LanBits1, LanBits2, AreRegisters
<1> QED BY <1>1, <1>2 DEF AddressSet

LEMMA LanResets ==
    ASSUME RegTypes, NEW k \in 1 .. 55, Does(LAN7800Configure[k]), ResetOver(k)
    PROVE  ResetOver(k + 1)'
<1>1. k \notin {5, 15} => reg'["HW_CFG"] = reg["HW_CFG"]
  BY Kept, LanChanges, AreRegisters
<1>2. k = 4 => "LRST" \in val'
  BY Valued, LanAccesses1, LanBits1
<1>3. k = 5 => reg'["HW_CFG"] = val
  BY Changed, LanAccesses1, AreRegisters
<1>4. k = 6 => "LRST" \notin reg["HW_CFG"]
  BY Valued, LanAccesses1, LanBits1
<1>5. k = 13 => val' = reg["HW_CFG"]
  BY Valued, LanAccesses2
<1>6. k = 14 => val' = (val \ {"MEF"}) \cup {"LED0", "LED1"}
  BY Valued, LanAccesses2, LanBits2
<1>7. k = 15 => reg'["HW_CFG"] = val
  BY Changed, LanAccesses2, AreRegisters
<1> QED BY <1>1, <1>2, <1>3, <1>4, <1>5, <1>6, <1>7 DEF ResetOver

LEMMA LanFilter ==
    ASSUME RegTypes, NEW k \in 1 .. 55, Does(LAN7800Configure[k]), ResetOver(k), FilterSet(k)
    PROVE  FilterSet(k + 1)'
<1>1. k # 27 => reg'["RFE_CTL"] = reg["RFE_CTL"]
  BY Kept, LanChanges, AreRegisters
<1>2. k = 6 => "LRST" \notin reg["HW_CFG"]
  BY Valued, LanAccesses1, LanBits1
<1>3. k = 25 => val' = reg["RFE_CTL"]
  BY Valued, LanAccesses3
<1>4. k = 26 => val' = (val \ {}) \cup {"BCAST", "PERFECT"}
  BY Valued, LanAccesses3, LanBits2
<1>5. k = 27 => reg'["RFE_CTL"] = val
  BY Changed, LanAccesses3, AreRegisters
<1> QED BY <1>1, <1>2, <1>3, <1>4, <1>5 DEF ResetOver, FilterSet

LEMMA LanPolls ==
    ASSUME RegTypes, NEW k \in 1 .. 55, Does(LAN7800Configure[k]), PollsAnswered(k)
    PROVE  PollsAnswered(k + 1)'
<1>1. k # 18 => reg'["USB_CFG0"] = reg["USB_CFG0"]
  BY Kept, LanChanges, AreRegisters
<1>2. k = 17 => val' = (val \ {"BIR"}) \cup {"BCE"}
  BY Valued, LanAccesses2, LanBits2
<1>3. k = 18 => reg'["USB_CFG0"] = val
  BY Changed, LanAccesses2, AreRegisters
<1> QED BY <1>1, <1>2, <1>3 DEF PollsAnswered

LEMMA LanPhyReset ==
    ASSUME RegTypes, NEW k \in 1 .. 55, Does(LAN7800Configure[k]), ResetOver(k), PhyReset(k)
    PROVE  PhyReset(k + 1)'
<1>1. k # 30 => reg'["PMT_CTL"] = reg["PMT_CTL"]
  BY Kept, LanChanges, AreRegisters
<1>2. k = 28 => val' = reg["PMT_CTL"]
  BY Valued, LanAccesses3
<1>3. k = 29 => val' = (val \ {}) \cup {"PHY_RST"}
  BY Valued, LanAccesses3, LanBits2
<1>4. k = 30 => reg' = Written("PMT_CTL", val)
  BY LanAccesses3 DEF Makes, Does
<1>5. \A bits : "PHY_RST" \in bits => Written("PMT_CTL", bits)["PMT_CTL"] = bits \ {"READY"}
  BY WrittenIs, AreRegisters
<1>6. k = 30 => reg'["PMT_CTL"] = {"PHY_RST"}
  BY <1>4, <1>5 DEF PhyReset
<1>7. k = 31 => reg["PMT_CTL"] \cap {"PHY_RST", "READY"} = {"READY"}
  BY Valued, LanAccesses3, LanBits3
<1>8. k = 31 => reg["PMT_CTL"] = {"READY"}
  BY <1>7 DEF PhyReset
<1>9. k = 6 => "LRST" \notin reg["HW_CFG"]
  BY Valued, LanAccesses1, LanBits1
<1>10. k = 6 => reg["PMT_CTL"] = {"READY"}
  BY <1>9 DEF ResetOver
<1> QED BY <1>1, <1>2, <1>3, <1>6, <1>8, <1>10 DEF PhyReset

LEMMA LanSwitches ==
    ASSUME RegTypes, NEW k \in 1 .. 55, Does(LAN7800Configure[k]), SwitchedOn(k)
    PROVE  SwitchedOn(k + 1)'
<1>1. /\ k # 37 => reg'["MAC_TX"] = reg["MAC_TX"]
      /\ k # 40 => reg'["FCT_TX_CTL"] = reg["FCT_TX_CTL"]
      /\ k # 43 => reg'["MAC_RX"] = reg["MAC_RX"]
      /\ k # 46 => reg'["FCT_RX_CTL"] = reg["FCT_RX_CTL"]
  BY Kept, LanChanges, AreRegisters
<1>2. /\ k = 36 => "TXEN" \in val'
      /\ k = 39 => "EN" \in val'
      /\ k = 42 => "RXEN" \in val'
      /\ k = 45 => "EN" \in val'
  BY Valued, LanAccesses4, LanAccesses5, LanBits3
<1>3. /\ k = 37 => reg'["MAC_TX"] = val
      /\ k = 40 => reg'["FCT_TX_CTL"] = val
      /\ k = 43 => reg'["MAC_RX"] = val
      /\ k = 46 => reg'["FCT_RX_CTL"] = val
  BY Changed, LanAccesses4, LanAccesses5, AreRegisters
<1> QED BY <1>1, <1>2, <1>3 DEF SwitchedOn

LEMMA LanLeds ==
    ASSUME RegTypes, NEW k \in 1 .. 55, Does(LAN7800Configure[k]), ResetOver(k), PhyReset(k), LedsSet(k)
    PROVE  LedsSet(k + 1)'
<1>1. /\ k \notin {48, 54} => reg'["MII_ACC"] = reg["MII_ACC"]
      /\ k # 53 => reg'["MII_DATA"] = reg["MII_DATA"]
  BY Kept, LanChanges, AreRegisters
<1>2. /\ k = 48 => reg'["MII_ACC"] = {"BUSY", "led"}
      /\ k = 54 => reg'["MII_ACC"] = {"BUSY", "WRITE", "led"}
      /\ k = 53 => reg'["MII_DATA"] = val
  BY Changed, LanAccesses5, LanBits4, AreRegisters
<1>3. k \in {49, 55} => reg["MII_ACC"] \cap {"BUSY"} = {}
  BY Valued, LanAccesses5, LanBits4
<1>4. k \in {49, 55} => "BUSY" \notin reg["MII_ACC"]
  BY <1>3
<1>5. k = 50 => val' = reg["MII_DATA"]
  BY Valued, LanAccesses5
<1>6. k = 51 => val' = (val \ {"default"}) \cup LedsOn
  BY Valued, LanAccesses5, LanBits4 DEF LedsOn
<1>7. k = 51 => val' = LedsOn
  BY <1>6 DEF LedsSet
<1>8. k \in {52, 53} => val' = val
  BY LanAccesses5 DEF Makes, Does
<1>9. phy' = phy
  BY DEF Does
<1>10. k = 6 => "LRST" \notin reg["HW_CFG"]
  BY Valued, LanAccesses1, LanBits1
<1>11. k = 6 => reg["MII_ACC"] = {}
  BY <1>10 DEF ResetOver
<1>12. k = 31 => reg["PMT_CTL"] \cap {"PHY_RST", "READY"} = {"READY"}
  BY Valued, LanAccesses3, LanBits3
<1>13. k = 31 => phy["led"] = {"default"}
  BY <1>12 DEF PhyReset, LedsSet
<1>14. k + 1 = 31 => reg'["PMT_CTL"] = {"PHY_RST"}
  <2>1. k = 30 => reg' = Written("PMT_CTL", val)
    BY LanAccesses3 DEF Makes, Does
  <2>2. \A bits : "PHY_RST" \in bits => Written("PMT_CTL", bits)["PMT_CTL"] = bits \ {"READY"}
    BY WrittenIs, AreRegisters
  <2> QED BY <2>1, <2>2 DEF PhyReset
<1> QED BY <1>1, <1>2, <1>4, <1>5, <1>7, <1>8, <1>9, <1>11, <1>13, <1>14 DEF LedsSet

(* An access brings LAN7800Configure one step further.                     *)
LEMMA LanAdvances ==
    ASSUME RegTypes, NEW k \in 1 .. 55, Does(LAN7800Configure[k]), LanRight(k)
    PROVE  LanRight(k + 1)'
BY LanResets, LanAddress, LanFilter, LanPolls, LanPhyReset, LanSwitches, LanLeds DEF LanRight

-----------------------------------------------------------------------------
(* Steps.                                                                  *)

LEMMA RegInit == EthInit => RegInv
<1> SUFFICES ASSUME EthInit PROVE RegInv
  OBVIOUS
<1>1. /\ doing = "configure" /\ answer = "failed"
      /\ link \in BOOLEAN /\ dropped \in BOOLEAN /\ seen = {} /\ past = BOOLEAN
  BY DEF EthInit
<1>2. PICK l \in LeftOver : chip = l.chip /\ reg = l.reg /\ phy = [i \in {"led"} |-> l.led]
  BY DEF EthInit
<1>3. /\ chip \in {"smsc", "lan"} /\ reg = [r \in Registers |-> reg[r]]
      /\ chip = "smsc" => "LRST" \notin reg["HW_CFG"] /\ "PHY_RST" \notin reg["PMT_CTL"]
  BY <1>2, EthernetConstants
<1>4. phy = [i \in {"led"} |-> phy[i]]
  BY <1>2
<1>5. FALSE \in past
  BY <1>1
<1>6. LinkRight
  BY <1>1, <1>5 DEF LinkRight
<1>7. CASE chip = "smsc"
  <2>1. Len(todo) = 5 /\ todo \in Seq(Accesses) /\ todo = SMSC951xConfigure
    BY <1>7, SmscAccesses DEF EthInit
  <2>2. RegTypes
    BY <1>1, <1>3, <1>4, <2>1 DEF RegTypes
  <2>3. Following
    BY <1>1, <1>7, <2>1 DEF Following
  <2>4. SmscRight(SmscStage)
    BY <1>1, <1>3, <1>7, <2>1 DEF SmscRight, SmscStage
  <2> QED BY <1>6, <1>7, <2>2, <2>3, <2>4 DEF RegInv
<1>8. CASE chip = "lan"
  <2>1. Len(todo) = 55 /\ todo \in Seq(Accesses) /\ todo = LAN7800Configure
    BY <1>8, LanIsSeq DEF EthInit
  <2>2. RegTypes
    BY <1>1, <1>3, <1>4, <2>1 DEF RegTypes
  <2>3. Following
    BY <1>1, <1>8, <2>1 DEF Following
  <2>4. Stage = 1
    BY <1>1, <2>1 DEF Stage
  <2>5. LanRight(1)
    BY DEF LanRight, ResetOver, AddressSet, FilterSet, PollsAnswered, PhyReset, SwitchedOn, LedsSet
  <2> QED BY <1>6, <1>8, <2>2, <2>3, <2>4, <2>5 DEF RegInv
<1> QED BY <1>3, <1>7, <1>8

LEMMA StageRange ==
    ASSUME RegTypes, Following, chip = "lan"
    PROVE  Stage \in 1 .. 56
<1>1. Len(todo) \in Nat
  BY DEF RegTypes
<1>2. doing = "configure" => Len(todo) <= 55
  BY DEF Following
<1>3. \A n \in Nat : n <= 55 => 56 - n \in 1 .. 56
  OBVIOUS
<1>4. 56 \in 1 .. 56
  OBVIOUS
<1> QED BY <1>1, <1>2, <1>3, <1>4, Zenon DEF Stage

LEMMA LanRightAt == \A k : Stage' = k /\ LanRight(k)' => LanRight(Stage)'
BY DEF LanRight, ResetOver, AddressSet, FilterSet, PollsAnswered, PhyReset, SwitchedOn, LedsSet

(* The next access is one of the function that runs.                       *)
LEMMA NextAccess ==
    ASSUME RegInv, todo # <<>>
    PROVE  /\ doing \in {"configure", "link"} /\ Len(todo) \in Nat \ {0}
           /\ doing = "configure" /\ chip = "lan" =>
                 Stage \in 1 .. 55 /\ Head(todo) = LAN7800Configure[Stage]
           /\ doing = "configure" /\ chip = "smsc" =>
                 SmscStage \in 1 .. 5 /\ Head(todo) = SMSC951xConfigure[SmscStage]
           /\ doing = "link" =>
                 Len(todo) \in 1 .. 4 /\ Head(todo) = PHYRead("status")[5 - Len(todo)]
<1>1. todo \in Seq(Accesses) /\ Len(todo) \in Nat \ {0} /\ Head(todo) = todo[1] /\ 1 \in 1 .. Len(todo)
  BY DEF RegInv, RegTypes
<1>2. doing \in {"configure", "link"}
  BY DEF RegInv, RegTypes, Following
<1>3. CASE doing = "configure" /\ chip = "lan"
  <2>1. Len(todo) <= 55 /\ todo[1] = LAN7800Configure[55 - Len(todo) + 1]
    BY <1>1, <1>3 DEF RegInv, Following
  <2>2. Stage = 55 - Len(todo) + 1
    BY <1>1, <1>3 DEF Stage
  <2>3. Stage \in 1 .. 55
    <3>1. \A n \in Nat \ {0} : n <= 55 => 55 - n + 1 \in 1 .. 55
      OBVIOUS
    <3> QED BY <1>1, <2>1, <2>2, <3>1, Zenon
  <2>4. Head(todo) = LAN7800Configure[Stage]
    BY <1>1, <2>1, <2>2
  <2> QED BY <1>1, <1>3, <2>3, <2>4
<1>4. CASE doing = "configure" /\ chip = "smsc"
  <2>1. Len(todo) <= 5 /\ todo[1] = SMSC951xConfigure[5 - Len(todo) + 1]
    BY <1>1, <1>4 DEF RegInv, Following
  <2>2. SmscStage = 5 - Len(todo) + 1
    BY <1>1, <1>4 DEF SmscStage
  <2> QED BY <1>1, <1>4, <2>1, <2>2
<1>5. CASE doing = "link"
  <2>1. Len(todo) <= 4 /\ todo[1] = PHYRead("status")[4 - Len(todo) + 1]
    BY <1>1, <1>5 DEF RegInv, Following
  <2>2. 5 - Len(todo) = 4 - Len(todo) + 1
    BY <1>1
  <2>3. Len(todo) \in 1 .. 4
    <3>1. \A n \in Nat \ {0} : n <= 4 => n \in 1 .. 4
      OBVIOUS
    <3> QED BY <1>1, <2>1, <3>1, Zenon
  <2>4. Head(todo) = PHYRead("status")[5 - Len(todo)]
    BY <1>1, <2>1, <2>2
  <2> QED BY <1>1, <1>5, <2>3, <2>4
<1> QED BY <1>1, <1>2, <1>3, <1>4, <1>5 DEF RegInv, RegTypes

LEMMA Goes ==
    ASSUME RegInv, todo # <<>>, Go, UNCHANGED <<chip, doing>>
    PROVE  /\ todo' \in Seq(Accesses) /\ Len(todo') = Len(todo) - 1 /\ Following'
           /\ doing = "configure" => Stage' = Stage + 1 /\ SmscStage' = SmscStage + 1
           /\ doing = "link" => Stage' = 56 /\ Stage = 56 /\ SmscStage' = 6 /\ SmscStage = 6
<1>1. todo \in Seq(Accesses) /\ Len(todo) \in Nat \ {0} /\ todo' = Tail(todo)
  BY DEF RegInv, RegTypes, Go
<1>2. /\ todo' \in Seq(Accesses) /\ Len(todo') = Len(todo) - 1
      /\ \A i \in 1 .. Len(todo') : todo'[i] = todo[i + 1]
  BY <1>1
<1>3. \A i \in 1 .. Len(todo') : i + 1 \in 1 .. Len(todo)
  BY <1>1, <1>2
<1>4. doing \in {"configure", "link"}
  BY NextAccess
<1>5. \A n \in {4, 5, 55} : \A i \in 1 .. Len(todo') : n - Len(todo) + (i + 1) = n - Len(todo') + i
  BY <1>1, <1>2
<1>6. Following'
  <2>1. CASE doing = "link"
    <3>1. Len(todo) <= 4 /\ \A i \in 1 .. Len(todo) : todo[i] = PHYRead("status")[4 - Len(todo) + i]
      BY <2>1 DEF RegInv, Following
    <3>2. Len(todo') <= 4
      BY <1>1, <1>2, <3>1
    <3>3. \A i \in 1 .. Len(todo') : todo'[i] = PHYRead("status")[4 - Len(todo') + i]
      BY <1>2, <1>3, <1>5, <3>1
    <3> QED BY <2>1, <3>2, <3>3 DEF Following
  <2>2. CASE doing = "configure" /\ chip = "lan"
    <3>1. Len(todo) <= 55 /\ \A i \in 1 .. Len(todo) : todo[i] = LAN7800Configure[55 - Len(todo) + i]
      BY <2>2 DEF RegInv, Following
    <3>2. Len(todo') <= 55
      BY <1>1, <1>2, <3>1
    <3>3. \A i \in 1 .. Len(todo') : todo'[i] = LAN7800Configure[55 - Len(todo') + i]
      BY <1>2, <1>3, <1>5, <3>1
    <3> QED BY <2>2, <3>2, <3>3 DEF Following
  <2>3. CASE doing = "configure" /\ chip = "smsc"
    <3>1. Len(todo) <= 5 /\ \A i \in 1 .. Len(todo) : todo[i] = SMSC951xConfigure[5 - Len(todo) + i]
      BY <2>3 DEF RegInv, Following
    <3>2. Len(todo') <= 5
      BY <1>1, <1>2, <3>1
    <3>3. \A i \in 1 .. Len(todo') : todo'[i] = SMSC951xConfigure[5 - Len(todo') + i]
      BY <1>2, <1>3, <1>5, <3>1
    <3> QED BY <2>3, <3>2, <3>3 DEF Following
  <2> QED BY <1>4, <2>1, <2>2, <2>3 DEF RegInv, RegTypes
<1>7. /\ doing = "configure" => Stage' = Stage + 1 /\ SmscStage' = SmscStage + 1
      /\ doing = "link" => Stage' = 56 /\ Stage = 56 /\ SmscStage' = 6 /\ SmscStage = 6
  BY <1>1, <1>2 DEF Stage, SmscStage
<1> QED BY <1>2, <1>6, <1>7

(* A configured chip stays so when only the access to the PHY changes.     *)
LEMMA PhyAccessKeeps ==
    ASSUME RegTypes, \A r \in Registers \ {"MII_ACC", "MII_DATA"} : reg'[r] = reg[r]
    PROVE  /\ phy' = phy /\ reg'["MII_ACC"] \in {reg["MII_ACC"], {"BUSY", "status"}, {"status"}} =>
                 (LanRight(56) => LanRight(56)')
           /\ \A k : SmscRight(k) => SmscRight(k)'
<1>1. \A r \in {"HW_CFG", "RX_ADDRL", "RX_ADDRH", "MAF_LO", "MAF_HI", "USB_CFG0", "RFE_CTL", "PMT_CTL",
               "MAC_TX", "FCT_TX_CTL", "MAC_RX", "FCT_RX_CTL", "ADDRH", "ADDRL", "MAC_CR", "TX_CFG"} :
         reg'[r] = reg[r]
  BY AreRegisters
<1>2. ASSUME phy' = phy, reg'["MII_ACC"] \in {reg["MII_ACC"], {"BUSY", "status"}, {"status"}}, LanRight(56)
      PROVE  LanRight(56)'
  BY <1>1, <1>2 DEF LanRight, ResetOver, AddressSet, FilterSet, PollsAnswered, PhyReset, SwitchedOn, LedsSet
<1>3. \A k : SmscRight(k) => SmscRight(k)'
  BY <1>1 DEF SmscRight
<1> QED BY <1>2, <1>3

(* An access is made and the function goes on.                             *)
LEMMA AccessKeeps ==
    ASSUME RegInv, todo # <<>>, Does(Head(todo)), Go, UNCHANGED <<chip, doing, answer, link, dropped, seen, past>>
    PROVE  RegInv'
<1>1. RegTypes /\ Following /\ LinkRight /\ doing \in {"configure", "link"}
  BY NextAccess DEF RegInv
<1>2. RegTypes'
  <2> DEFINE a == Head(todo)
  <2>1. reg' = reg \/ reg' = Written(a.reg, a.set) \/ reg' = Written(a.reg, val)
    BY DEF Does
  <2> HIDE DEF a
  <2>2. \A r, bits : Written(r, bits) = [q \in Registers |-> Written(r, bits)[q]]
    BY <1>1 DEF RegTypes, Written
  <2>3. reg' = [q \in Registers |-> reg'[q]]
    BY <1>1, <2>1, <2>2 DEF RegTypes
  <2> QED BY <1>1, <2>3, Goes DEF RegTypes, Does
<1>3. CASE doing = "configure" /\ chip = "lan"
  <2>1. Stage \in 1 .. 55 /\ Does(LAN7800Configure[Stage]) /\ LanRight(Stage)
    BY <1>3, NextAccess DEF RegInv
  <2>2. \A k \in 1 .. 55 : Does(LAN7800Configure[k]) /\ LanRight(k) => LanRight(k + 1)'
    BY <1>1, LanAdvances
  <2>4. LanRight(Stage)'
    BY <1>3, <2>1, <2>2, Goes, LanRightAt
  <2>5. LinkRight'
    BY <1>1, <1>3, Zenon DEF LinkRight
  <2> QED BY <1>2, <1>3, <2>4, <2>5, Goes DEF RegInv
<1>4. CASE doing = "configure" /\ chip = "smsc"
  <2>1. SmscStage \in 1 .. 5 /\ Head(todo) = SMSC951xConfigure[SmscStage] /\ SmscRight(SmscStage)
        /\ SmscStage' = SmscStage + 1
    BY <1>4, NextAccess, Goes DEF RegInv
  <2>2. PICK k \in 1 .. 5 : k = SmscStage
    BY <2>1
  <2>3. /\ k = 1 => Head(todo).do = "write" /\ Head(todo).reg = "ADDRH" /\ Head(todo).set = {"mac-hi"}
        /\ k = 2 => Head(todo).do = "write" /\ Head(todo).reg = "ADDRL" /\ Head(todo).set = {"mac-lo"}
        /\ k = 3 => Head(todo).do = "write" /\ Head(todo).reg = "LED_GPIO_CFG"
        /\ k = 4 => Head(todo).do = "write" /\ Head(todo).reg = "MAC_CR"
                    /\ Head(todo).set = {"RCVOWN", "TXEN", "RXEN"}
        /\ k = 5 => Head(todo).do = "write" /\ Head(todo).reg = "TX_CFG" /\ Head(todo).set = {"ON"}
    BY <2>1, <2>2, SmscAccesses, OpFields
  <2>4. reg' = Written(Head(todo).reg, Head(todo).set)
    BY <2>2, <2>3 DEF Does
  <2>5. \A r, bits : /\ \A q \in Registers : q # r => Written(r, bits)[q] = reg[q]
                     /\ r \in Registers \ {"PMT_CTL"} => Written(r, bits)[r] = bits
    BY <1>1 DEF RegTypes, Written
  <2>6. /\ \A r \in Registers : r # Head(todo).reg => reg'[r] = reg[r]
        /\ Head(todo).reg \in Registers \ {"PMT_CTL"} => reg'[Head(todo).reg] = Head(todo).set
    BY <2>4, <2>5
  <2>7. SmscRight(k + 1)'
    <3>1. SmscRight(k)
      BY <2>1, <2>2
    <3>2. /\ reg'["HW_CFG"] = reg["HW_CFG"] /\ reg'["PMT_CTL"] = reg["PMT_CTL"]
          /\ k # 1 => reg'["ADDRH"] = reg["ADDRH"]
          /\ k # 2 => reg'["ADDRL"] = reg["ADDRL"]
          /\ k # 4 => reg'["MAC_CR"] = reg["MAC_CR"]
          /\ k # 5 => reg'["TX_CFG"] = reg["TX_CFG"]
      BY <2>2, <2>3, <2>6, AreRegisters
    <3>3. /\ k = 1 => reg'["ADDRH"] = {"mac-hi"}
          /\ k = 2 => reg'["ADDRL"] = {"mac-lo"}
          /\ k = 4 => reg'["MAC_CR"] = {"RCVOWN", "TXEN", "RXEN"}
          /\ k = 5 => reg'["TX_CFG"] = {"ON"}
      BY <2>2, <2>3, <2>6, AreRegisters
    <3> QED BY <2>2, <3>1, <3>2, <3>3 DEF SmscRight
  <2>8. SmscRight(SmscStage)'
    BY <2>1, <2>2, <2>7 DEF SmscRight
  <2>9. LinkRight'
    BY <1>1, <1>4, Zenon DEF LinkRight
  <2> QED BY <1>2, <1>4, <2>8, <2>9, Goes DEF RegInv
<1>5. CASE doing = "link"
  <2>1. Len(todo) \in 1 .. 4 /\ Head(todo) = PHYRead("status")[5 - Len(todo)] /\ Len(todo') = Len(todo) - 1
    BY <1>5, NextAccess, Goes
  <2>2. PICK n \in 1 .. 4 : n = Len(todo)
    BY <2>1
  <2>3. /\ n \in {2, 4} => Head(todo) = Op("wait", "MII_ACC", {}, {"BUSY"})
        /\ n = 3 => Head(todo) = Op("write", "MII_ACC", {"BUSY", "status"}, {})
        /\ n = 1 => Head(todo) = Op("read", "MII_DATA", {}, {})
    <3>1. /\ n = 4 => Head(todo) = PHYRead("status")[1]
          /\ n = 3 => Head(todo) = PHYRead("status")[2]
          /\ n = 2 => Head(todo) = PHYRead("status")[3]
          /\ n = 1 => Head(todo) = PHYRead("status")[4]
      <4>1. \A f : Head(todo) = f[5 - n] =>
            /\ (n = 4 => Head(todo) = f[1]) /\ (n = 3 => Head(todo) = f[2])
            /\ (n = 2 => Head(todo) = f[3]) /\ (n = 1 => Head(todo) = f[4])
        OBVIOUS
      <4> QED BY <2>1, <2>2, <4>1
    <3> QED BY <3>1, PhyReadAccesses
  <2>4. /\ n \in {2, 4} => reg["MII_ACC"] \cap {"BUSY"} = {} /\ reg' = reg
        /\ n = 3 => reg' = Written("MII_ACC", {"BUSY", "status"})
        /\ n = 1 => val' = reg["MII_DATA"] /\ reg' = reg
    BY <2>3, OpFields DEF Does
  <2>5. n = 3 => /\ reg'["MII_ACC"] = {"BUSY", "status"}
                 /\ \A r \in Registers \ {"MII_ACC"} : reg'[r] = reg[r]
    BY <1>1, <2>4, AreRegisters DEF RegTypes, Written
  <2>6. phy' = phy
    BY DEF Does
  <2>7. /\ LanRight(56) => LanRight(56)'
        /\ SmscRight(6) => SmscRight(6)'
    BY <1>1, <2>2, <2>4, <2>5, <2>6, PhyAccessKeeps
  <2>8. chip = "lan" => LanRight(Stage)'
    <3>1. chip = "lan" => LanRight(56)
      BY <1>5, Goes DEF RegInv
    <3>2. Stage' = 56
      BY <1>5, Goes
    <3>3. LanRight(56)' => LanRight(Stage)'
      BY <3>2, LanRightAt
    <3> QED BY <2>7, <3>1, <3>3
  <2>9. chip # "lan" => SmscRight(SmscStage)'
    <3>1. chip # "lan" => SmscRight(6)
      BY <1>5, Goes DEF RegInv
    <3>2. SmscStage' = 6
      BY <1>5, Goes
    <3>3. SmscRight(6)' => SmscRight(SmscStage)'
      BY <3>2 DEF SmscRight
    <3> QED BY <2>7, <3>1, <3>3
  <2>10. LinkRight'
    <3>1. /\ Len(todo') = 3 => "BUSY" \notin reg'["MII_ACC"]
          /\ Len(todo') = 2 => reg'["MII_ACC"] = {"BUSY", "status"}
      BY <2>1, <2>2, <2>4, <2>5
    <3>2. Len(todo') = 1 => "BUSY" \notin reg'["MII_ACC"] /\ Told(reg["MII_DATA"])' /\ Fresh'
      <4>1. n = 2 => "BUSY" \notin reg["MII_ACC"]
        BY <2>4
      <4>2. n = 2 => Told(reg["MII_DATA"]) /\ Fresh
        BY <1>1, <1>5, <2>2, <4>1 DEF LinkRight
      <4>3. Len(todo') = 1 => n = 2
        <5>1. Len(todo') = n - 1
          BY <2>1, <2>2
        <5>2. n - 1 = 1 => n = 2
          OBVIOUS
        <5> QED BY <5>1, <5>2
      <4> QED BY <2>4, <4>1, <4>2, <4>3 DEF Told, Fresh
    <3>3. todo' = <<>> => Told(val)' /\ Fresh'
      <4>1. todo' = <<>> => n = 1
        <5>1. todo' = <<>> => Len(todo') = 0
          BY EmptySeq
        <5>2. Len(todo') = n - 1
          BY <2>1, <2>2
        <5> QED BY <5>1, <5>2
      <4>2. n = 1 => Told(reg["MII_DATA"]) /\ Fresh
        BY <1>1, <1>5, <2>2 DEF LinkRight
      <4> QED BY <2>4, <4>1, <4>2 DEF Told, Fresh
    <3>4. /\ link \in seen /\ (dropped => FALSE \in past \cup seen)
      BY <1>1, <1>5, Zenon DEF LinkRight
    <3> QED BY <1>5, <3>1, <3>2, <3>3, <3>4, Zenon DEF LinkRight
  <2> QED BY <1>2, <1>5, <2>8, <2>9, <2>10, Goes DEF RegInv
<1> QED BY <1>1, <1>3, <1>4, <1>5 DEF RegTypes

(* The function gives up, perhaps after a write that the chip has seen.    *)
LEMMA AbandonKeeps ==
    ASSUME RegInv, todo # <<>>, Abandon, UNCHANGED <<chip, link, dropped, seen, past, phy>>,
           reg' = reg \/ ((More("write") \/ More("store")) /\ reg' = Effect)
    PROVE  RegInv'
<1>1. RegTypes /\ doing \in {"configure", "link"}
  BY NextAccess DEF RegInv
<1>2. RegTypes'
  <2>1. \A r, bits : Written(r, bits) = [q \in Registers |-> Written(r, bits)[q]]
    BY <1>1 DEF RegTypes, Written
  <2>2. reg' = [q \in Registers |-> reg'[q]]
    BY <1>1, <2>1 DEF RegTypes, Effect
  <2>3. todo' \in Seq(Accesses) /\ doing' \in {"off", "idle"}
    BY DEF Abandon
  <2> QED BY <1>1, <2>2, <2>3 DEF RegTypes
<1>3. CASE doing = "configure"
  <2>1. doing' = "off" /\ todo' = <<>> /\ answer' = answer
    BY <1>3 DEF Abandon
  <2>2. LinkRight'
    BY <1>3, <2>1, Zenon DEF RegInv, LinkRight
  <2> QED BY <1>2, <2>1, <2>2 DEF RegInv, Following
<1>4. CASE doing = "link"
  <2>1. doing' = "idle" /\ todo' = <<>> /\ answer' = "failed"
    BY <1>4 DEF Abandon
  <2>2. /\ \A r \in Registers \ {"MII_ACC", "MII_DATA"} : reg'[r] = reg[r]
        /\ reg'["MII_ACC"] \in {reg["MII_ACC"], {"BUSY", "status"}, {"status"}}
    <3>1. CASE reg' = reg
      BY <3>1
    <3>2. CASE (More("write") \/ More("store")) /\ reg' = Effect
      <4>1. Head(todo).do \in {"write", "store"} /\ Len(todo) \in 1 .. 4
            /\ Head(todo) = PHYRead("status")[5 - Len(todo)]
        BY <1>4, <3>2, NextAccess DEF More
      <4>2. \A f : Head(todo) = f[5 - Len(todo)] =>
               \/ Head(todo) = f[1] \/ Head(todo) = f[2] \/ Head(todo) = f[3] \/ Head(todo) = f[4]
        <5>1. \A n \in 1 .. 4 : 5 - n = 1 \/ 5 - n = 2 \/ 5 - n = 3 \/ 5 - n = 4
          OBVIOUS
        <5> QED BY <4>1, <5>1
      <4>3. Head(todo) = Op("write", "MII_ACC", {"BUSY", "status"}, {})
        BY <4>1, <4>2, PhyReadAccesses, OpFields
      <4>4. reg' = Written("MII_ACC", {"BUSY", "status"})
        BY <3>2, <4>3, OpFields DEF Effect
      <4> QED BY <1>1, <4>4, AreRegisters DEF RegTypes, Written
    <3> QED BY <3>1, <3>2
  <2>3. /\ LanRight(56) => LanRight(56)'
        /\ SmscRight(6) => SmscRight(6)'
    BY <1>1, <2>2, PhyAccessKeeps
  <2>4. Stage = 56 /\ SmscStage = 6 /\ Stage' = 56 /\ SmscStage' = 6
    BY <1>4, <2>1 DEF Stage, SmscStage
  <2>5. chip' = "lan" => LanRight(Stage)'
    <3>1. LanRight(56)' => LanRight(Stage)'
      BY <2>4, LanRightAt
    <3> QED BY <1>4, <2>3, <2>4, <3>1 DEF RegInv
  <2>6. chip' # "lan" => SmscRight(SmscStage)'
    <3>1. SmscRight(6)' => SmscRight(SmscStage)'
      BY <2>4 DEF SmscRight
    <3> QED BY <1>4, <2>3, <2>4, <3>1 DEF RegInv
  <2>7. LinkRight'
    BY <1>4, <2>1, Zenon DEF RegInv, LinkRight
  <2> QED BY <1>2, <2>1, <2>5, <2>6, <2>7 DEF RegInv, Following
<1> QED BY <1>1, <1>3, <1>4

(* Steps that leave the chip and nValue alone and do not change how far    *)
(* the configuration is.                                                   *)
LEMMA StageKeeps ==
    ASSUME RegInv, doing # "off", UNCHANGED <<chip, reg, phy, val>>,
           Stage' = Stage, SmscStage' = SmscStage
    PROVE  IF chip = "lan" THEN LanRight(Stage)' ELSE SmscRight(SmscStage)'
<1>1. LanRight(Stage) => LanRight(Stage)'
  BY DEF LanRight, ResetOver, AddressSet, FilterSet, PollsAnswered, PhyReset, SwitchedOn, LedsSet
<1>2. SmscRight(SmscStage) => SmscRight(SmscStage)'
  BY DEF SmscRight
<1> QED BY <1>1, <1>2 DEF RegInv

LEMMA CallsKeep ==
    ASSUME RegInv, Configured \/ IsLinkUp \/ LinkIsKnown \/ ReceiveFrame \/ FrameReceived \/ ReceptionFails \/ NothingReceived
    PROVE  RegInv'
<1>1. /\ UNCHANGED <<chip, reg, phy, val, link, dropped>> /\ doing # "off" /\ doing' # "off"
      /\ RegTypes /\ Following /\ LinkRight
  BY DEF Configured, IsLinkUp, LinkIsKnown, ReceiveFrame, FrameReceived, ReceptionFails, NothingReceived,
         Called, RegInv, cable
<1>2. CASE Configured
  <2>1. doing = "configure" /\ todo = <<>> /\ doing' = "idle" /\ UNCHANGED <<todo, answer, seen, past>>
    BY <1>2 DEF Configured, cable
  <2>2. RegTypes'
    BY <1>1, <2>1 DEF RegTypes
  <2>3. Following'
    BY <1>1, <2>1 DEF Following
  <2>4. Stage' = Stage /\ SmscStage' = SmscStage
    BY <2>1 DEF Stage, SmscStage
  <2>5. LinkRight'
    BY <1>1, <2>1, Zenon DEF LinkRight
  <2> QED BY <1>1, <2>2, <2>3, <2>4, <2>5, StageKeeps DEF RegInv
<1>3. CASE IsLinkUp
  <2>1. /\ doing = "idle" /\ doing' = "link" /\ seen' = {link} /\ UNCHANGED answer
        /\ past' = IF answer = "failed" THEN past \cup seen ELSE seen
        /\ todo' = PHYRead("status")
    BY <1>3, PhyReadAccesses DEF IsLinkUp, Called
  <2>2. todo' \in Seq(Accesses) /\ Len(todo') = 4
    BY <2>1, PhyReadAccesses
  <2>3. RegTypes'
    BY <1>1, <2>1, <2>2 DEF RegTypes
  <2>4. Following'
    <3>1. \A i \in 1 .. Len(todo') : 4 - Len(todo') + i = i
      BY <2>2
    <3> QED BY <2>1, <2>2, <3>1 DEF Following
  <2>5. LinkRight'
    <3>1. todo' # <<>>
      BY <2>2, EmptySeq
    <3>2. link' \in seen'
      BY <1>1, <2>1
    <3>3. ~(Len(todo') = 3) /\ ~(Len(todo') = 2) /\ ~(Len(todo') = 1)
      BY <2>2
    <3>4. dropped => FALSE \in past'
      <4>1. CASE answer = "failed"
        BY <1>1, <2>1, <4>1, Zenon DEF LinkRight
      <4>2. CASE answer # "failed"
        BY <1>1, <2>1, <4>2, Zenon DEF LinkRight, Fresh
      <4> QED BY <4>1, <4>2
    <3>5. dropped' => FALSE \in past' \cup seen'
      BY <1>1, <3>4, Zenon
    <3> QED BY <2>1, <3>1, <3>2, <3>3, <3>5, Zenon DEF LinkRight
  <2>6. Stage' = Stage /\ SmscStage' = SmscStage
    BY <2>1 DEF Stage, SmscStage
  <2> QED BY <1>1, <2>3, <2>4, <2>5, <2>6, StageKeeps DEF RegInv
<1>4. CASE LinkIsKnown
  <2>1. /\ doing = "link" /\ todo = <<>> /\ doing' = "idle" /\ UNCHANGED <<todo, seen, past>>
        /\ answer' = IF "link" \in val THEN "up" ELSE "down"
    BY <1>4 DEF LinkIsKnown, cable
  <2>2. RegTypes'
    BY <1>1, <2>1 DEF RegTypes
  <2>3. Following'
    BY <2>1 DEF Following
  <2>4. LinkRight'
    <3>1. Told(val) /\ Fresh /\ link \in seen /\ (dropped => FALSE \in past \cup seen)
      BY <1>1, <2>1, Zenon DEF LinkRight
    <3>2. /\ answer' = "up" => "link" \in val
          /\ answer' = "down" => "link" \notin val
      BY <2>1
    <3>3. /\ answer' = "up" => TRUE \in seen
          /\ answer' = "down" => FALSE \in past \cup seen
      BY <3>1, <3>2, Zenon DEF Told
    <3>4. Fresh'
      BY <1>1, <2>1, <3>1 DEF Fresh
    <3>5. doing' # "link" /\ doing' \notin {"configure", "off"}
      BY <2>1
    <3> QED BY <1>1, <2>1, <3>1, <3>3, <3>4, <3>5, Zenon DEF LinkRight
  <2>5. Stage' = Stage /\ SmscStage' = SmscStage
    BY <2>1 DEF Stage, SmscStage
  <2> QED BY <1>1, <2>2, <2>3, <2>4, <2>5, StageKeeps DEF RegInv
<1>5. CASE ReceiveFrame \/ FrameReceived \/ ReceptionFails \/ NothingReceived
  <2>1. /\ doing \in {"idle", "receive"} /\ doing' \in {"idle", "receive"}
        /\ UNCHANGED <<todo, answer, seen, past>>
    BY <1>5 DEF ReceiveFrame, FrameReceived, ReceptionFails, NothingReceived, Called, cable
  <2>2. RegTypes'
    BY <1>1, <2>1 DEF RegTypes
  <2>3. Following'
    BY <1>1, <2>1 DEF Following
  <2>5. LinkRight'
    BY <1>1, <2>1 DEF LinkRight, Fresh
  <2>4. Stage' = Stage /\ SmscStage' = SmscStage
    BY <2>1 DEF Stage, SmscStage
  <2> QED BY <1>1, <2>2, <2>3, <2>4, <2>5, StageKeeps DEF RegInv
<1> QED BY <1>2, <1>3, <1>4, <1>5

(* The chip ends its reset: only when it was asked to.                     *)
LEMMA ResetKeeps ==
    ASSUME RegInv, ResetEnds
    PROVE  RegInv'
<1>1. /\ "LRST" \in reg["HW_CFG"] /\ reg' = PowerOn /\ RegTypes /\ Following /\ LinkRight
      /\ UNCHANGED <<chip, doing, todo, val, answer, phy, link, dropped, seen, past>>
  BY DEF ResetEnds, ethDriver, cable, RegInv
<1>2. /\ PowerOn = [r \in Registers |-> PowerOn[r]]
      /\ PowerOn["PMT_CTL"] = {"READY"} /\ PowerOn["MII_ACC"] = {} /\ PowerOn["RFE_CTL"] = {}
  BY DEF PowerOn, Registers
<1>3. RegTypes' /\ Following'
  BY <1>1, <1>2 DEF RegTypes, Following
<1>4. CASE doing = "off"
  <2>1. LinkRight'
    BY <1>1, <1>4, Zenon DEF LinkRight
  <2> QED BY <1>1, <1>3, <1>4, <2>1 DEF RegInv
<1>5. CASE doing # "off"
  <2>1. chip = "lan" /\ LanRight(Stage)
    BY <1>1, <1>5 DEF RegInv, SmscRight
  <2>2. Stage \in 1 .. 56
    BY <1>1, <2>1, StageRange
  <2>3. Stage <= 6
    BY <1>1, <2>1, <2>2 DEF LanRight, ResetOver
  <2>4. doing = "configure" /\ Stage' = Stage
    BY <1>1, <2>3 DEF Stage
  <2>5. PICK k \in 1 .. 6 : k = Stage
    BY <2>2, <2>3
  <2>6. LanRight(k)'
    <3>1. LanRight(k)
      BY <2>1, <2>5
    <3>2. reg'["PMT_CTL"] = {"READY"} /\ reg'["MII_ACC"] = {} /\ reg'["RFE_CTL"] = {}
      BY <1>1, <1>2
    <3> QED BY <1>1, <2>5, <3>1, <3>2
            DEF LanRight, ResetOver, AddressSet, FilterSet, PollsAnswered, PhyReset, SwitchedOn, LedsSet
  <2>7. LanRight(Stage)'
    BY <2>4, <2>5, <2>6, LanRightAt
  <2>8. LinkRight'
    BY <1>1, <2>4, Zenon DEF LinkRight
  <2> QED BY <1>1, <1>3, <2>1, <2>7, <2>8 DEF RegInv
<1> QED BY <1>4, <1>5

LEMMA PhyResetKeeps ==
    ASSUME RegInv, PhyResetEnds
    PROVE  RegInv'
<1>1. /\ "PHY_RST" \in reg["PMT_CTL"] /\ RegTypes /\ Following /\ LinkRight
      /\ reg' = [reg EXCEPT !["PMT_CTL"] = (reg["PMT_CTL"] \ {"PHY_RST"}) \cup {"READY"}]
      /\ phy' = [i \in DOMAIN phy |-> {"default"}] /\ dropped' = TRUE
      /\ UNCHANGED <<chip, doing, todo, val, answer, link, seen, past>>
  BY DEF PhyResetEnds, ethDriver, RegInv
<1>2. /\ phy' = [i \in {"led"} |-> phy'[i]] /\ phy'["led"] = {"default"}
  BY <1>1 DEF RegTypes
<1>3. /\ reg' = [r \in Registers |-> reg'[r]]
      /\ \A r \in Registers \ {"PMT_CTL"} : reg'[r] = reg[r]
      /\ reg'["PMT_CTL"] = (reg["PMT_CTL"] \ {"PHY_RST"}) \cup {"READY"}
  BY <1>1, AreRegisters DEF RegTypes
<1>4. RegTypes' /\ Following'
  BY <1>1, <1>2, <1>3 DEF RegTypes, Following
<1>5. ASSUME doing \in {"configure", "off"} PROVE LinkRight'
  BY <1>1, <1>5, Zenon DEF LinkRight
<1>6. CASE doing = "off"
  BY <1>1, <1>4, <1>5, <1>6 DEF RegInv
<1>7. CASE doing # "off"
  <2>1. chip = "lan" /\ LanRight(Stage)
    BY <1>1, <1>7 DEF RegInv, SmscRight
  <2>2. Stage \in 1 .. 56
    BY <1>1, <2>1, StageRange
  <2>3. PICK k \in 1 .. 56 : k = Stage
    BY <2>2
  <2>4. LanRight(k)
    BY <2>1, <2>3
  <2>5. (k = 31 /\ reg["PMT_CTL"] = {"PHY_RST"}) \/ k \in 1 .. 6
    BY <1>1, <2>3, <2>4 DEF LanRight, PhyReset
  <2>6. doing = "configure" /\ Stage' = Stage
    BY <1>1, <2>3, <2>5 DEF Stage
  <2>7. \A r \in {"HW_CFG", "RX_ADDRL", "RX_ADDRH", "MAF_LO", "MAF_HI", "USB_CFG0", "RFE_CTL",
                  "MAC_TX", "FCT_TX_CTL", "MAC_RX", "FCT_RX_CTL", "MII_ACC"} : reg'[r] = reg[r]
    BY <1>3, AreRegisters
  <2>8. CASE k = 31 /\ reg["PMT_CTL"] = {"PHY_RST"}
    <3>1. reg'["PMT_CTL"] = {"READY"}
      BY <1>3, <2>8
    <3>2. LanRight(31)'
      BY <1>1, <1>2, <2>4, <2>7, <2>8, <3>1
         DEF LanRight, ResetOver, AddressSet, FilterSet, PollsAnswered, PhyReset, SwitchedOn, LedsSet
    <3> QED BY <1>1, <1>4, <1>5, <2>1, <2>3, <2>6, <2>8, <3>2, LanRightAt DEF RegInv
  <2>9. CASE k \in 1 .. 6
    <3>1. LanRight(k)'
      <4>1. k = 6 => "LRST" \in reg["HW_CFG"]
        BY <1>1, <2>4 DEF LanRight, ResetOver
      <4> QED BY <1>1, <2>4, <2>7, <2>9, <4>1
         DEF LanRight, ResetOver, AddressSet, FilterSet, PollsAnswered, PhyReset, SwitchedOn, LedsSet
    <3> QED BY <1>1, <1>4, <1>5, <2>1, <2>3, <2>6, <3>1, LanRightAt DEF RegInv
  <2> QED BY <2>5, <2>8, <2>9
<1> QED BY <1>6, <1>7

(* What an access to the PHY does to the registers.                        *)
LEMMA PhyAccessDoes ==
    ASSUME RegTypes, PhyAccess
    PROVE  /\ "BUSY" \in reg["MII_ACC"] /\ UNCHANGED <<chip, doing, todo, val, answer, link, seen, past>>
           /\ reg' = [r \in Registers |-> reg'[r]] /\ phy' = [i \in {"led"} |-> phy'[i]]
           /\ \A r \in Registers \ {"MII_ACC", "MII_DATA"} : reg'[r] = reg[r]
           /\ reg'["MII_ACC"] = reg["MII_ACC"] \ {"BUSY"}
           /\ IF "WRITE" \in reg["MII_ACC"]
              THEN /\ dropped' = dropped /\ reg'["MII_DATA"] = reg["MII_DATA"]
                   /\ "led" \in reg["MII_ACC"] => phy'["led"] = reg["MII_DATA"]
              ELSE /\ phy' = phy
                   /\ IF "status" \in reg["MII_ACC"]
                      THEN /\ dropped' = ~link
                           /\ reg'["MII_DATA"] = IF link /\ ~dropped THEN {"link"} ELSE {}
                      ELSE dropped' = dropped /\ reg'["MII_DATA"] = phy["led"]
<1>1. "BUSY" \in reg["MII_ACC"] /\ UNCHANGED <<chip, doing, todo, val, answer, link, seen, past>>
  BY DEF PhyAccess, ethDriver
<1>2. CASE "WRITE" \in reg["MII_ACC"]
  <2>1. /\ phy' = [i \in DOMAIN phy |-> IF i \in reg["MII_ACC"] THEN reg["MII_DATA"] ELSE phy[i]]
        /\ reg' = [reg EXCEPT !["MII_ACC"] = reg["MII_ACC"] \ {"BUSY"}] /\ dropped' = dropped
    BY <1>2 DEF PhyAccess
  <2> QED BY <1>1, <1>2, <2>1, AreRegisters DEF RegTypes
<1>3. CASE "WRITE" \notin reg["MII_ACC"] /\ "status" \in reg["MII_ACC"]
  <2>1. /\ reg' = [reg EXCEPT !["MII_ACC"] = reg["MII_ACC"] \ {"BUSY"},
                              !["MII_DATA"] = IF link /\ ~dropped THEN {"link"} ELSE {}]
        /\ dropped' = ~link /\ phy' = phy
    BY <1>3 DEF PhyAccess
  <2> QED BY <1>1, <1>3, <2>1, AreRegisters DEF RegTypes
<1>4. CASE "WRITE" \notin reg["MII_ACC"] /\ "status" \notin reg["MII_ACC"]
  <2>1. /\ reg' = [reg EXCEPT !["MII_ACC"] = reg["MII_ACC"] \ {"BUSY"}, !["MII_DATA"] = phy["led"]]
        /\ dropped' = dropped /\ phy' = phy
    BY <1>4 DEF PhyAccess
  <2> QED BY <1>1, <1>4, <2>1, AreRegisters DEF RegTypes
<1> QED BY <1>2, <1>3, <1>4

(* IsLinkUp takes over what its own access has read, and the PHY forgets   *)
(* what was before.                                                        *)
LEMMA PhyTells ==
    ASSUME RegTypes, LinkRight, PhyAccess
    PROVE  LinkRight'
<1>1. "BUSY" \in reg["MII_ACC"] /\ UNCHANGED <<chip, doing, todo, val, answer, link, seen, past>>
      /\ link \in BOOLEAN /\ dropped \in BOOLEAN
  BY PhyAccessDoes DEF RegTypes
<1>2. \/ dropped' = dropped /\ ("WRITE" \in reg["MII_ACC"] \/ "status" \notin reg["MII_ACC"])
      \/ /\ dropped' = ~link /\ reg'["MII_DATA"] = IF link /\ ~dropped THEN {"link"} ELSE {}
         /\ reg'["MII_ACC"] = reg["MII_ACC"] \ {"BUSY"}
  BY PhyAccessDoes
<1>3. link \in seen => (dropped' => dropped \/ FALSE \in seen)
  <2>1. CASE dropped' = dropped
    BY <2>1
  <2>2. CASE dropped' = ~link
    <3>1. CASE link = TRUE
      BY <2>2, <3>1
    <3>2. CASE link = FALSE
      BY <3>2
    <3> QED BY <1>1, <3>1, <3>2
  <2> QED BY <1>2, <2>1, <2>2
<1>4. dropped' => FALSE \in past \cup seen
  <2>1. dropped => FALSE \in past \cup seen
    BY Zenon DEF LinkRight
  <2>2. link \in seen \/ FALSE \in past
    BY Zenon DEF LinkRight
  <2> QED BY <1>3, <2>1, <2>2, Zenon
<1>5. CASE doing = "link"
  <2>1. link \in seen /\ Len(todo) # 3 /\ Len(todo) # 1
        /\ (Len(todo) = 2 => reg["MII_ACC"] = {"BUSY", "status"})
        /\ (todo = <<>> => Told(val) /\ Fresh)
    BY <1>1, <1>5 DEF LinkRight
  <2>2. Fresh => Fresh'
    BY <1>1, <1>3, <2>1, Zenon DEF Fresh
  <2>3. todo' = <<>> => Told(val)' /\ Fresh'
    BY <1>1, <2>1, <2>2 DEF Told
  <2>4. Len(todo) = 2 => reg'["MII_ACC"] = {"status"} /\ Told(reg["MII_DATA"])' /\ Fresh'
    <3> SUFFICES ASSUME Len(todo) = 2
                 PROVE  reg'["MII_ACC"] = {"status"} /\ Told(reg["MII_DATA"])' /\ Fresh'
      OBVIOUS
    <3>1. /\ dropped' = ~link /\ reg'["MII_DATA"] = IF link /\ ~dropped THEN {"link"} ELSE {}
          /\ reg'["MII_ACC"] = {"status"}
      BY <1>2, <2>1
    <3>2. "link" \in reg'["MII_DATA"] => link
      BY <3>1
    <3>3. "link" \notin reg'["MII_DATA"] => ~link \/ dropped
      BY <3>1
    <3>4. /\ link => TRUE \in seen
          /\ ~link => FALSE \in seen
      <4>1. CASE link = TRUE
        BY <2>1, <4>1
      <4>2. CASE link = FALSE
        BY <2>1, <4>2
      <4> QED BY <1>1, <4>1, <4>2
    <3>5. dropped => FALSE \in past \cup seen
      BY Zenon DEF LinkRight
    <3>6. FALSE \in seen => FALSE \in past \cup seen
      OBVIOUS
    <3>7. Told(reg["MII_DATA"])'
      BY <1>1, <3>2, <3>3, <3>4, <3>5, <3>6, Zenon DEF Told
    <3>8. Fresh'
      BY <1>1, <3>1, <3>4, Zenon DEF Fresh
    <3> QED BY <3>1, <3>7, <3>8
  <2>5. doing' \notin {"configure", "off", "idle", "receive"} /\ doing' = "link"
    BY <1>1, <1>5
  <2>6. link' \in seen' /\ Len(todo') # 3 /\ Len(todo') # 1
        /\ (Len(todo') = 2 => reg'["MII_ACC"] = {"status"} /\ Told(reg["MII_DATA"])' /\ Fresh')
        /\ (dropped' => FALSE \in past' \cup seen')
    BY <1>1, <1>4, <2>1, <2>4
  <2> QED BY <2>3, <2>5, <2>6, Zenon DEF LinkRight
<1>6. CASE doing # "link"
  <2>1. ASSUME doing \in {"idle", "receive"}, answer # "failed" PROVE Fresh'
    <3>1. link \in seen /\ Fresh
      BY <2>1, Zenon DEF LinkRight
    <3> QED BY <1>1, <1>3, <3>1, Zenon DEF Fresh
  <2>2. dropped' => FALSE \in past' \cup seen'
    BY <1>1, <1>4
  <2> QED BY <1>1, <1>6, <2>1, <2>2, Zenon DEF LinkRight
<1> QED BY <1>5, <1>6

(* The access to the PHY that runs is the one that was asked for last.     *)
LEMMA PhyKeeps ==
    ASSUME RegInv, PhyAccess
    PROVE  RegInv'
<1>1. /\ RegTypes /\ Following /\ LinkRight /\ LinkRight'
  BY PhyTells DEF RegInv
<1>2. /\ "BUSY" \in reg["MII_ACC"] /\ UNCHANGED <<chip, doing, todo, val, answer, link, seen, past>>
      /\ reg' = [r \in Registers |-> reg'[r]] /\ phy' = [i \in {"led"} |-> phy'[i]]
      /\ \A r \in Registers \ {"MII_ACC", "MII_DATA"} : reg'[r] = reg[r]
      /\ reg'["MII_ACC"] = reg["MII_ACC"] \ {"BUSY"}
      /\ "WRITE" \in reg["MII_ACC"] =>
            reg'["MII_DATA"] = reg["MII_DATA"] /\ ("led" \in reg["MII_ACC"] => phy'["led"] = reg["MII_DATA"])
      /\ "WRITE" \notin reg["MII_ACC"] =>
            phy' = phy /\ ("status" \notin reg["MII_ACC"] => reg'["MII_DATA"] = phy["led"])
  BY <1>1, PhyAccessDoes
<1>3. dropped' \in BOOLEAN
  BY <1>1, PhyAccessDoes DEF RegTypes
<1>4. RegTypes' /\ Following'
  BY <1>1, <1>2, <1>3 DEF RegTypes, Following
<1>5. Stage' = Stage /\ SmscStage' = SmscStage
  BY <1>2 DEF Stage, SmscStage
<1>6. CASE doing = "off"
  BY <1>1, <1>2, <1>4, <1>6 DEF RegInv
<1>7. CASE doing # "off" /\ chip = "smsc"
  <2>1. SmscRight(SmscStage)
    BY <1>7 DEF RegInv
  <2>2. PICK k : k = SmscStage
    OBVIOUS
  <2>3. SmscRight(k)'
    BY <1>1, <1>2, <2>1, <2>2, PhyAccessKeeps
  <2>4. SmscRight(SmscStage)'
    BY <1>5, <2>2, <2>3 DEF SmscRight
  <2> QED BY <1>1, <1>2, <1>4, <1>7, <2>4 DEF RegInv
<1>8. CASE doing # "off" /\ chip = "lan"
  <2>1. PICK k \in 1 .. 56 : k = Stage
    BY <1>1, <1>8, StageRange
  <2>2. LanRight(k)
    BY <1>8, <2>1 DEF RegInv
  <2>3. \/ k \in 1 .. 6
        \/ k = 49 /\ reg["MII_ACC"] = {"BUSY", "led"}
        \/ k = 55 /\ reg["MII_ACC"] = {"BUSY", "WRITE", "led"} /\ reg["MII_DATA"] = LedsOn
        \/ k = 56 /\ reg["MII_ACC"] = {"BUSY", "status"}
    BY <1>2, <2>2 DEF LanRight, LedsSet
  <2>4. \A r \in {"HW_CFG", "RX_ADDRL", "RX_ADDRH", "MAF_LO", "MAF_HI", "USB_CFG0", "RFE_CTL", "PMT_CTL",
                  "MAC_TX", "FCT_TX_CTL", "MAC_RX", "FCT_RX_CTL"} : reg'[r] = reg[r]
    BY <1>2, AreRegisters
  <2>5. CASE k \in 1 .. 6
    <3>1. k = 6 => "LRST" \in reg["HW_CFG"]
      BY <1>2, <2>2 DEF LanRight, ResetOver
    <3>2. LanRight(k)'
      BY <1>2, <2>2, <2>4, <2>5, <3>1
         DEF LanRight, ResetOver, AddressSet, FilterSet, PollsAnswered, PhyReset, SwitchedOn, LedsSet
    <3> QED BY <1>1, <1>2, <1>4, <1>5, <1>8, <2>1, <3>2, LanRightAt DEF RegInv
  <2>6. CASE k = 49 /\ reg["MII_ACC"] = {"BUSY", "led"}
    <3>1. LanRight(49) /\ phy["led"] = {"default"}
      BY <2>2, <2>6 DEF LanRight, LedsSet
    <3>2. reg'["MII_ACC"] = {"led"} /\ reg'["MII_DATA"] = {"default"} /\ phy'["led"] = {"default"}
      BY <1>2, <2>6, <3>1
    <3>3. LedsSet(49)'
      <4>1. \A i \in {31, 48, 50, 51, 52, 53, 54, 55, 56} : 49 # i
        OBVIOUS
      <4>2. 49 \notin 7 .. 48 /\ 49 \notin 50 .. 54 /\ 49 \notin {52, 53} /\ 49 \notin {54, 55}
        OBVIOUS
      <4> QED BY <3>2, <4>1, <4>2, Zenon DEF LedsSet
    <3>4. LanRight(49)'
      BY <1>2, <2>4, <3>1, <3>3
         DEF LanRight, ResetOver, AddressSet, FilterSet, PollsAnswered, PhyReset, SwitchedOn
    <3> QED BY <1>1, <1>2, <1>4, <1>5, <1>8, <2>1, <2>6, <3>4, LanRightAt DEF RegInv
  <2>7. CASE k = 55 /\ reg["MII_ACC"] = {"BUSY", "WRITE", "led"} /\ reg["MII_DATA"] = LedsOn
    <3>1. reg'["MII_ACC"] = {"WRITE", "led"} /\ phy'["led"] = LedsOn /\ reg'["MII_DATA"] = LedsOn
      BY <1>2, <2>7
    <3>2. LanRight(55)'
      BY <1>2, <2>2, <2>4, <2>7, <3>1
         DEF LanRight, ResetOver, AddressSet, FilterSet, PollsAnswered, PhyReset, SwitchedOn, LedsSet
    <3> QED BY <1>1, <1>2, <1>4, <1>5, <1>8, <2>1, <2>7, <3>2, LanRightAt DEF RegInv
  <2>8. CASE k = 56 /\ reg["MII_ACC"] = {"BUSY", "status"}
    <3>1. reg'["MII_ACC"] = {"status"} /\ phy' = phy /\ LanRight(56)
      BY <1>2, <2>2, <2>8
    <3>2. LanRight(56)'
      BY <1>1, <1>2, <3>1, PhyAccessKeeps
    <3> QED BY <1>1, <1>2, <1>4, <1>5, <1>8, <2>1, <2>8, <3>2, LanRightAt DEF RegInv
  <2> QED BY <2>3, <2>5, <2>6, <2>7, <2>8
<1> QED BY <1>1, <1>6, <1>7, <1>8 DEF RegTypes

LEMMA RegNext == RegInv /\ [EthNext]_ethVars => RegInv'
<1> SUFFICES ASSUME RegInv, [EthNext]_ethVars PROVE RegInv'
  OBVIOUS
<1>1. CASE ResetEnds
  BY <1>1, ResetKeeps
<1>2. CASE PhyResetEnds
  BY <1>2, PhyResetKeeps
<1>3. CASE PhyAccess
  BY <1>3, PhyKeeps
<1>4. CASE DoRead \/ DoModify \/ DoWrite
  <2>1. todo # <<>> /\ Go /\ UNCHANGED <<chip, doing, answer, link, dropped, seen, past>>
    BY <1>4 DEF DoRead, DoModify, DoWrite, More, cable
  <2>2. Does(Head(todo))
    BY <1>4 DEF DoRead, DoModify, DoWrite, More, Effect, Does
  <2> QED BY <2>1, <2>2, AccessKeeps
<1>5. CASE CheckId
  <2>1. todo # <<>> /\ Head(todo).do = "check" /\ UNCHANGED <<chip, val, reg, phy, link, dropped, seen, past>>
    BY <1>5 DEF CheckId, More, cable
  <2>2. CASE Go /\ UNCHANGED <<doing, answer>>
    <3>1. Does(Head(todo))
      BY <2>1 DEF Does
    <3> QED BY <2>1, <2>2, <3>1, AccessKeeps
  <2>3. CASE Abandon
    BY <2>1, <2>3, AbandonKeeps
  <2> QED BY <1>5, <2>2, <2>3 DEF CheckId
<1>6. CASE DoWait
  <2>1. todo # <<>> /\ Head(todo).do = "wait" /\ UNCHANGED <<chip, val, reg, phy, link, dropped, seen, past>>
    BY <1>6 DEF DoWait, More, cable
  <2>2. CASE /\ reg[Head(todo).reg] \cap Head(todo).mask = Head(todo).set
             /\ Go /\ UNCHANGED <<doing, answer>>
    <3>1. Does(Head(todo))
      BY <2>1, <2>2 DEF Does
    <3> QED BY <2>1, <2>2, <3>1, AccessKeeps
  <2>3. CASE Abandon
    BY <2>1, <2>3, AbandonKeeps
  <2>4. CASE UNCHANGED <<doing, todo, answer>>
    <3>1. RegTypes' /\ Following' /\ LinkRight' /\ Stage' = Stage /\ SmscStage' = SmscStage
      BY <2>1, <2>4 DEF RegInv, RegTypes, Following, LinkRight, Told, Fresh, Stage, SmscStage
    <3> QED BY <2>1, <2>4, <3>1, StageKeeps DEF RegInv
  <2> QED BY <1>6, <2>2, <2>3, <2>4 DEF DoWait
<1>7. CASE MessageFails
  <2>1. /\ todo # <<>> /\ Abandon /\ UNCHANGED <<chip, link, dropped, seen, past, phy>>
        /\ reg' = reg \/ ((More("write") \/ More("store")) /\ reg' = Effect)
    BY <1>7 DEF MessageFails, More, cable
  <2> QED BY <2>1, AbandonKeeps
<1>8. CASE Configured \/ IsLinkUp \/ LinkIsKnown \/ ReceiveFrame \/ FrameReceived \/ ReceptionFails \/ NothingReceived
  BY <1>8, CallsKeep
<1>9. CASE LinkChanges
  <2>1. /\ UNCHANGED <<chip, doing, todo, val, answer, reg, phy, past>>
        /\ link' = ~link /\ dropped' = (dropped \/ link) /\ seen' = seen \cup {link'}
        /\ link \in BOOLEAN /\ dropped \in BOOLEAN
    BY <1>9 DEF LinkChanges, ethDriver, RegInv, RegTypes
  <2>2. link' \in BOOLEAN /\ seen' \subseteq BOOLEAN /\ link' \in seen' /\ seen \subseteq seen'
        /\ dropped' \in BOOLEAN
    BY <2>1 DEF RegInv, RegTypes
  <2>3. RegTypes' /\ Following' /\ Stage' = Stage /\ SmscStage' = SmscStage
    BY <2>1, <2>2 DEF RegInv, RegTypes, Following, Stage, SmscStage
  <2>4. dropped' => dropped \/ FALSE \in seen'
    <3>1. CASE link = TRUE
      BY <2>1, <3>1
    <3>2. CASE link = FALSE
      BY <2>1, <3>2
    <3> QED BY <2>1, <3>1, <3>2
  <2>5. (Fresh => Fresh') /\ \A v : Told(v) => Told(v)'
    <3>1. \A x : x \in seen => x \in seen'
      BY <2>2
    <3> QED BY <2>1, <2>4, <3>1, Zenon DEF Fresh, Told
  <2>6. dropped' => FALSE \in past' \cup seen'
    <3>1. (dropped => FALSE \in past \cup seen) /\ \A x : x \in seen => x \in seen'
      BY <2>2, Zenon DEF RegInv, LinkRight
    <3> QED BY <2>1, <2>4, <3>1, Zenon
  <2>7. (Told(reg["MII_DATA"]) => Told(reg["MII_DATA"])') /\ (Told(val) => Told(val)')
    BY <2>1, <2>5 DEF Told
  <2>8. LinkRight'
    <3>1. CASE doing \in {"idle", "receive"}
      <4>1. answer # "failed" => /\ Fresh /\ (answer = "up" => TRUE \in seen)
                                 /\ (answer = "down" => FALSE \in past \cup seen)
        BY <3>1, Zenon DEF RegInv, LinkRight
      <4>2. \A x : x \in seen => x \in seen'
        BY <2>2
      <4>3. answer' # "failed" => /\ link' \in seen' /\ Fresh' /\ (answer' = "up" => TRUE \in seen')
                                  /\ (answer' = "down" => FALSE \in past' \cup seen')
        BY <2>1, <2>2, <2>5, <4>1, <4>2, Zenon
      <4>4. doing' # "link" /\ doing' \notin {"configure", "off"}
        BY <2>1, <3>1
      <4> QED BY <2>2, <2>6, <4>3, <4>4, Zenon DEF LinkRight
    <3>2. CASE doing \notin {"idle", "receive"}
      BY <2>1, <2>2, <2>5, <2>6, <2>7, <3>2, Zenon DEF RegInv, LinkRight
    <3> QED BY <3>1, <3>2
  <2> QED BY <2>1, <2>3, <2>8, StageKeeps DEF RegInv
<1>10. CASE FrameArrives \/ (\E n \in SendLengths : SendFrame(n)) \/ UNCHANGED ethVars
  <2>1. UNCHANGED <<chip, doing, todo, val, answer, reg, phy, link, dropped, seen, past>>
    BY <1>10 DEF FrameArrives, SendFrame, ethVars, ethDriver, cable
  <2>2. RegTypes' /\ Following' /\ Stage' = Stage /\ SmscStage' = SmscStage
    BY <2>1 DEF RegInv, RegTypes, Following, Stage, SmscStage
  <2>3. LinkRight'
    BY <2>1, Zenon DEF RegInv, LinkRight, Told, Fresh
  <2> QED BY <2>1, <2>2, <2>3, StageKeeps DEF RegInv
<1> QED BY <1>1, <1>2, <1>3, <1>4, <1>5, <1>6, <1>7, <1>8, <1>9, <1>10 DEF EthNext

(* Configure of both drivers leaves address, filter, polls, receiver and   *)
(* transmitter as they should be, whatever the chip was left with, however *)
(* long its resets take and however many messages fail, and no later call  *)
(* undoes it.                                                              *)
THEOREM ConfigurationTheorem == EthSpec => []ConfigurationKept
<1>1. RegInv => ConfigurationKept
  <2> SUFFICES ASSUME RegInv, doing \in {"idle", "link", "receive"} PROVE ConfigurationKept
    BY DEF ConfigurationKept
  <2>1. Stage = 56 /\ SmscStage = 6 /\ doing # "off" /\ chip \in {"smsc", "lan"}
    BY DEF Stage, SmscStage, RegInv, RegTypes
  <2>2. chip = "lan" => LanRight(56)
    BY <2>1 DEF RegInv
  <2>3. chip = "smsc" => SmscRight(6)
    BY <2>1 DEF RegInv
  <2>4. CASE chip = "lan"
    <3>1. /\ "LRST" \notin reg["HW_CFG"] /\ "MEF" \notin reg["HW_CFG"]
          /\ reg["RX_ADDRL"] = {"mac-lo"} /\ reg["RX_ADDRH"] = {"mac-hi"}
          /\ reg["MAF_LO"] = {"mac-lo"} /\ reg["MAF_HI"] = {"mac-hi", "VALID"}
          /\ reg["RFE_CTL"] = {"BCAST", "PERFECT"} /\ "BIR" \notin reg["USB_CFG0"]
          /\ reg["PMT_CTL"] = {"READY"}
      BY <2>2, <2>4 DEF LanRight, ResetOver, AddressSet, FilterSet, PollsAnswered, PhyReset
    <3>2. /\ "RXEN" \in reg["MAC_RX"] /\ "EN" \in reg["FCT_RX_CTL"]
          /\ "TXEN" \in reg["MAC_TX"] /\ "EN" \in reg["FCT_TX_CTL"]
          /\ phy["led"] = {"link1000", "link10-100"}
      BY <2>2, <2>4 DEF LanRight, SwitchedOn, LedsSet, LedsOn
    <3>3. {"LRST", "MEF"} \cap reg["HW_CFG"] = {}
      BY <3>1
    <3> QED BY <2>4, <3>1, <3>2, <3>3 DEF ConfigurationKept
  <2>5. CASE chip = "smsc"
    <3>1. /\ reg["ADDRH"] = {"mac-hi"} /\ reg["ADDRL"] = {"mac-lo"}
          /\ reg["MAC_CR"] = {"RCVOWN", "TXEN", "RXEN"} /\ reg["TX_CFG"] = {"ON"}
      BY <2>3, <2>5 DEF SmscRight
    <3>2. {"TXEN", "RXEN"} \subseteq reg["MAC_CR"] /\ "ON" \in reg["TX_CFG"]
      BY <3>1
    <3> QED BY <2>5, <3>1, <3>2 DEF ConfigurationKept
  <2> QED BY <2>1, <2>4, <2>5
<1> QED BY <1>1, RegInit, RegNext, PTL DEF EthSpec

(* IsLinkUp of both drivers, also after calls that failed half-way and     *)
(* left an access to the PHY running: "up" is a state that the link had    *)
(* while the call ran, "down" one that it had since the call before that   *)
(* has answered, which is all that a status that latches can tell.         *)
THEOREM LinkTheorem == EthSpec => []LinkTruth
<1>1. RegInv => LinkTruth
  BY Zenon DEF RegInv, LinkRight, LinkTruth
<1> QED BY <1>1, RegInit, RegNext, PTL DEF EthSpec
=============================================================================
