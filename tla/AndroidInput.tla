----------------------------- MODULE AndroidInput -----------------------------
(* Typing on Android: the soft keyboard's composition and beforeinput events, *)
(* turned into bytes for the pty (android-terminal-input.ts), and the context *)
(* the keyboard is shown of the line typed so far (android-input.ts).  The    *)
(* line is the text left of the terminal's cursor.                            *)
EXTENDS Integers, Sequences, SequencesExt

CONSTANTS Letters, Space,
          MaxLine,  \* bound on the length of the line and of the context
          Lines     \* what a cursor move or a recalled command leaves

VARIABLES line,      \* the pty's line, up to the cursor
          context,   \* the retained context, which is the textarea's value
          composing, \* InputState
          composed,
          opening,   \* the composition has had no update yet
          armed,     \* a sticky modifier is armed for the next character
          rest,      \* history: the line to the left of the context
          before,    \* history: what the keyboard shows left of its word
          disturbed  \* history: the line was changed behind the context's back
                     \* since the context was last dropped

vars == <<line, context, composing, composed, opening, armed,
          rest, before, disturbed>>

Words == BoundedSeq(Letters, MaxLine)

TypeOK == /\ line \in Seq(Letters \union {Space}) /\ context \in Seq(Letters \union {Space})
          /\ {rest, before} \subseteq Seq(Letters \union {Space})
         /\ composed \in Words /\ {composing, opening, armed, disturbed} \subseteq BOOLEAN

Init == /\ rest = <<>> /\ before = <<>> /\ line = <<>> /\ context = <<>> /\ composed = <<>>
        /\ composing = FALSE /\ opening = FALSE /\ armed = FALSE /\ disturbed = FALSE

Drop(s, n) == SubSeq(s, 1, Len(s) - n)  \* empty when n exceeds the length

(* Sends n backspaces and a text.  A single byte is taken by an armed        *)
(* modifier (sendTyped), and then changes nothing on the line.               *)
Send(n, text) ==
  IF armed /\ n + Len(text) = 1
    THEN line' = line /\ armed' = FALSE /\ disturbed' = TRUE
    ELSE /\ line' = Drop(line, n) \o text /\ Len(line') <= MaxLine
         /\ UNCHANGED <<armed, disturbed>>

(* Backspaces over the end of prev that next does not share, and types on.   *)
SendDiff(prev, next) ==
  LET max == Min({Len(prev), Len(next)})
      i == Max({k \in 0 .. max : SubSeq(prev, 1, k) = SubSeq(next, 1, k)})
  IN Send(Len(prev) - i, SubSeq(next, i + 1, Len(next)))

(* The word of the context that the caret is attached to.                    *)
lastWord == LET start == {i \in 0 .. Len(context) : i = 0 \/ context[i] = Space}
         IN SubSeq(context, (CHOOSE i \in start : \A j \in start : j <= i) + 1, Len(context))

compositionStart ==
  /\ ~composing
  /\ composing' = TRUE /\ composed' = <<>> /\ opening' = TRUE
  /\ UNCHANGED <<line, context, armed, rest, before, disturbed>>

(* Faulty variant: the composition always starts from nothing.               *)
ReclaimedNone(data) == <<>>

(* The opening update of a composition that takes over the word the caret is *)
(* attached to starts with that word, which is on the line already.          *)
Reclaimed(data) == IF opening /\ IsPrefix(lastWord, data) THEN lastWord ELSE <<>>

(* The keyboard composes the word at the caret, of which it has seen the     *)
(* letters; a word of its own it starts after a space.                       *)
compositionUpdate(data) ==
  LET word == Reclaimed(data) IN
  /\ composing /\ (opening => IsPrefix(lastWord, data))
  /\ opening' = FALSE
  /\ context' = Drop(context, Len(word))
  /\ SendDiff(IF opening THEN word ELSE composed, data)
  /\ composed' = data
  /\ before' = IF opening THEN Drop(context, Len(lastWord)) ELSE before
  /\ UNCHANGED <<composing, rest>>

(* The composition ends, perhaps with the word corrected.  It has had an     *)
(* update.                                                                   *)
compositionEnd(data) ==
  /\ composing /\ ~opening
  /\ SendDiff(composed, data)
  /\ composing' = FALSE /\ composed' = <<>> /\ opening' = FALSE
  /\ context' = context \o data /\ before' = <<>>
  /\ UNCHANGED rest

(* beforeinput.  The keyboard ends a composition before it edits otherwise.  *)
Edited == composing' = FALSE /\ composed' = <<>> /\ opening' = opening

insertText(c) ==
  /\ ~composing
  /\ SendDiff(composed, <<c>>) /\ Edited
  /\ context' = Append(context, c)
  /\ UNCHANGED <<rest, before>>

(* An autocorrection of the last n characters.                               *)

replaceRange(n, data) ==
  /\ ~composing /\ n <= Len(context)
  /\ Send(n, data) /\ Edited
  /\ context' = Drop(context, n) \o data
  /\ UNCHANGED <<rest, before>>

deleteBackward ==
  /\ ~composing
  /\ Send(1, <<>>)
  /\ context' = Drop(context, 1)
  /\ rest' = IF context = <<>> THEN Drop(rest, 1) ELSE rest
  /\ UNCHANGED <<composing, composed, opening, before>>

enter ==
  /\ ~composing
  /\ line' = <<>> /\ context' = <<>> /\ Edited
  /\ armed' = FALSE /\ disturbed' = FALSE
  /\ rest' = <<>> /\ UNCHANGED before

(* xterm sends a paste by its own listener; more than one character passes   *)
(* the modifiers.                                                            *)
Paste(data) ==
  /\ ~composing /\ Len(data) > 1
  /\ line' = line \o data /\ Len(line') <= MaxLine
  /\ context' = context \o data
  /\ UNCHANGED <<composing, composed, opening, armed, rest, before, disturbed>>

(* A key of the bar or an arrow of the soft keyboard changes the line on the *)
(* pty; the context is dropped, but not in the middle of a word.             *)
resetContext == context' = IF composing THEN context ELSE <<>>

CursorKey(l) ==
  /\ resetContext
  /\ line' = l /\ rest' = l /\ disturbed' = composing
  /\ UNCHANGED <<composing, composed, opening, armed, before>>

(* The path of a stored file or a dictated text is typed past the adapter.   *)
TypedOutside(data) ==
  /\ data # <<>> /\ disturbed' = TRUE
  /\ line' = line \o data /\ Len(line') <= MaxLine
  /\ UNCHANGED <<context, composing, composed, opening, armed, rest, before>>

(* A modifier of the bar is tapped, in itself no input.                      *)
ArmModifier == /\ armed' = TRUE
               /\ UNCHANGED <<line, context, composing, composed, opening,
                               rest, before, disturbed>>

Events ==
  \/ compositionStart \/ deleteBackward \/ enter \/ ArmModifier
  \/ \E c \in Letters \union {Space} : insertText(c)
  \/ \E w \in Words : \/ compositionUpdate(w) \/ compositionEnd(w) \/ Paste(w)
                      \/ TypedOutside(w)
                      \/ \E n \in 1 .. MaxLine : replaceRange(n, w)
  \/ \E l \in Lines : CursorKey(l)

(* Bound: the context is kept as short as the line.                          *)
Next == Events /\ Len(context') <= MaxLine

Spec == Init /\ [][Next]_vars

(* What the keyboard shows is what is on the pty's line, to the letter: the  *)
(* context, or what stands before the word being composed and that word.     *)
(* Only then do the backspaces of the next correction hit the letters they   *)
(* are for.  Once the line has been changed behind the context's back this   *)
(* is lost, and holds again when the context is next dropped.                *)
Field == IF composing /\ ~opening THEN before \o composed ELSE context
Matches == line = rest \o Field
InStep == disturbed \/ Matches

(* The context never drifts from the line.  It does when a file's path is    *)
(* typed past the adapter, when a modifier takes a character of the context, *)
(* and when the cursor is moved in the middle of a word.                     *)
NeverDrifts == Matches
=============================================================================
