------------------------------ MODULE Keyboard ------------------------------
(***************************************************************************)
(* intr_keyboard_handler of device/keyboard.c: the modifier state it keeps *)
(* across interrupts and the decision, for each scancode byte read from    *)
(* port 0x60, whether a character goes to kbd_buf.  The handler runs with *)
(* interrupts off and reads one byte per interrupt, so one call is one     *)
(* step.  The module that puts characters into the buffer (IoQueue) uses  *)
(* KeyboardHandler together with PutsChar.                                 *)
(*                                                                         *)
(* The 8042 is the environment: it sends, for a key pressed (again, when  *)
(* it repeats) or released, its make or break code, an extended key with  *)
(* the 0xe0 prefix byte first.                                             *)
(***************************************************************************)
EXTENDS Naturals, FiniteSets, Bitwise

CONSTANT Keys   \* the keys the model presses, records [make, ext]

VARIABLES
    ctrl_status, shift_status, alt_status, caps_lock_status, ext_scancode,
    held,     \* the keys physically down
    pending   \* {[key, down]}: an extended code whose 0xe0 has been sent

kbdVars == <<ctrl_status, shift_status, alt_status, caps_lock_status,
             ext_scancode, held, pending>>

(* The make codes of keyboard.c.                                           *)
ExtPrefix == 224                 \* 0xe0
ShiftLMake == 42                 \* 0x2a
ShiftRMake == 54                 \* 0x36
AltLMake == 56                   \* 0x38
AltRMake == 57400                \* 0xe038
CtrlLMake == 29                  \* 0x1d
CtrlRMake == 57373               \* 0xe01d
CapsLockMake == 58               \* 0x3a

CharA == 97                      \* 'a'
CharL == 108                     \* 'l'
CharU == 117                     \* 'u'

(* The rows of keymap for the make codes the model's keys can produce:    *)
(* <<unshifted, shifted>> ASCII codes, 0 for the invisible keys.           *)
Keymap ==
    [i \in {2, 22, 30, 38, CtrlLMake, ShiftLMake, ShiftRMake, AltLMake, CapsLockMake} |->
        CASE i = 2  -> <<49, 33>>        \* '1' '!'
          [] i = 22 -> <<CharU, 85>>     \* 'u' 'U'
          [] i = 30 -> <<CharA, 65>>     \* 'a' 'A'
          [] i = 38 -> <<CharL, 76>>     \* 'l' 'L'
          [] OTHER  -> <<0, 0>>]

KbdInit ==
    /\ ctrl_status = FALSE /\ shift_status = FALSE /\ alt_status = FALSE
    /\ caps_lock_status = FALSE /\ ext_scancode = FALSE
    /\ held = {} /\ pending = {}

(* The scancode, merged with 0xe000 when the last byte was the prefix.     *)
Merged(sc) == IF ext_scancode THEN 57344 | sc ELSE sc

IsBreakCode(code) == (code & 128) # 0

(* A make code the handler processes: a key of keymap, right alt or ctrl. *)
IsHandledMake(code) == (code > 0 /\ code < 59) \/ code = AltRMake \/ code = CtrlRMake

(* The keys whose second column is not a capital: shift alone picks it.    *)
NoCapsKey(code) == code < 14 \/ code \in {41, 26, 27, 43, 39, 40, 51, 52, 53}

(* bool shift: the modifiers as they were before this scancode.            *)
Shift(code) ==
    IF NoCapsKey(code) THEN shift_status
    ELSE IF shift_status /\ caps_lock_status THEN FALSE
    ELSE shift_status \/ caps_lock_status

(* cur_char, with ctrl+l and ctrl+u turned into control characters.        *)
CurChar(code) ==
    LET c == Keymap[code & 255][IF Shift(code) THEN 2 ELSE 1]
    IN IF ctrl_status /\ c \in {CharL, CharU} THEN c - CharA ELSE c

(* The handler reaches ioqueue_putchar (if kbd_buf is not full).           *)
PutsChar(sc) ==
    /\ sc # ExtPrefix
    /\ ~IsBreakCode(Merged(sc))
    /\ IsHandledMake(Merged(sc))
    /\ CurChar(Merged(sc)) # 0

(* Mutant: the merge leaves ext_scancode set.                             *)
ExtAfterNoReset(sc) == sc = ExtPrefix \/ ext_scancode

(* ext_scancode after the call: set by the prefix, cleared by the merge.   *)
ExtAfter(sc) == sc = ExtPrefix

(* A break code clears the status of its modifier.                         *)
BreakCode(make) ==
    /\ ctrl_status' = (ctrl_status /\ make \notin {CtrlLMake, CtrlRMake})
    /\ shift_status' = (shift_status /\ make \notin {ShiftLMake, ShiftRMake})
    /\ alt_status' = (alt_status /\ make \notin {AltLMake, AltRMake})
    /\ UNCHANGED caps_lock_status

(* A make code of an invisible key records ctrl or shift as down and       *)
(* flips caps lock; scancode has been cut to its low byte by then.         *)
MakeModifier(scancode) ==
    /\ ctrl_status' = (ctrl_status \/ scancode \in {CtrlLMake, CtrlRMake})
    /\ shift_status' = (shift_status \/ scancode \in {ShiftLMake, ShiftRMake})
    /\ caps_lock_status' = IF scancode = CapsLockMake THEN ~caps_lock_status
                           ELSE caps_lock_status
    /\ UNCHANGED alt_status

(* intr_keyboard_handler for the byte sc, but for the ioqueue_putchar.    *)
KeyboardHandler(sc) ==
    /\ ext_scancode' = ExtAfter(sc)
    /\ LET code == Merged(sc) IN
       IF sc # ExtPrefix /\ IsBreakCode(code) THEN BreakCode(code & 65407)
       ELSE IF sc # ExtPrefix /\ IsHandledMake(code) /\ CurChar(code) = 0
            THEN MakeModifier(code & 255)
       ELSE UNCHANGED <<ctrl_status, shift_status, alt_status, caps_lock_status>>

(* The byte a key sends going down (or repeating) or coming up, and the   *)
(* keys held once that code is complete.                                   *)
KeyCode(k, down) == IF down THEN k.make ELSE k.make + 128
HeldAfter(k, down) == IF down THEN held \cup {k} ELSE held \ {k}

(* The 8042 sends the next byte: the second byte of an extended code, or  *)
(* the first byte of a key going down, repeating or coming up.            *)
KeyDevice(sc) ==
    \/ \E p \in pending :
          /\ sc = KeyCode(p.key, p.down)
          /\ held' = HeldAfter(p.key, p.down) /\ pending' = {}
    \/ /\ pending = {}
       /\ \E k \in Keys, down \in BOOLEAN :
            /\ down \/ k \in held
            /\ IF k.ext
                  THEN sc = ExtPrefix /\ pending' = {[key |-> k, down |-> down]}
                       /\ UNCHANGED held
                  ELSE sc = KeyCode(k, down) /\ held' = HeldAfter(k, down)
                       /\ UNCHANGED pending

(* Every byte the 8042 can send for Keys.                                  *)
DeviceBytes == {ExtPrefix} \cup {KeyCode(k, d) : k \in Keys, d \in BOOLEAN}

KbdTypeOK ==
    /\ {ctrl_status, shift_status, alt_status, caps_lock_status, ext_scancode}
           \subseteq BOOLEAN
    /\ held \subseteq Keys
    /\ pending \subseteq [key : Keys, down : BOOLEAN] /\ Cardinality(pending) <= 1

(* The handler never records ctrl or shift as down while no such key is   *)
(* held: every break code, plain or extended, reaches the modifier it     *)
(* belongs to, because ext_scancode never outlives the byte after 0xe0.   *)
NoPhantomModifier ==
    /\ shift_status => \E k \in held : k.make \in {ShiftLMake, ShiftRMake}
    /\ ctrl_status => \E k \in held : k.make = CtrlLMake

=============================================================================
