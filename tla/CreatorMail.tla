---------------------------- MODULE CreatorMail ----------------------------
(***************************************************************************)
(* What Outreach promises to creators, without batches, messages or         *)
(* workers: a creator gets letters one after another, a new one only when   *)
(* nobody is still trying to send the last; only the last letter can be     *)
(* answered; and the first answer is final and ends the correspondence.     *)
(***************************************************************************)
EXTENDS Integers

CONSTANTS Creators, MaxSends, Choice

VARIABLES
  letters,   \* how many letters have been written to each creator
  trying,    \* whether somebody is still trying to send the last one
  told,      \* for each letter, how often the mail server has confirmed it
  mailbox,   \* the letters that have reached the mail server
  answer     \* the creator's answer and the letter it came by

vars == <<letters, trying, told, mailbox, answer>>

NoAnswer == [state |-> "none", by |-> 0]

Init ==
  /\ letters = [c \in Creators |-> 0]
  /\ trying = [c \in Creators |-> FALSE]
  /\ told = [d \in Creators \X (1..MaxSends) |-> 0]
  /\ mailbox = {}
  /\ answer = [c \in Creators |-> NoAnswer]

Last(c) == <<c, letters[c]>>

(* One request may write to several creators at once; it is their first     *)
(* letter, or a resend to one of them.                                      *)
Write(cs) ==
  /\ \A c \in cs : letters[c] < MaxSends /\ ~trying[c] /\ answer[c].state = "none"
  /\ letters' = [c \in Creators |-> IF c \in cs THEN letters[c] + 1 ELSE letters[c]]
  /\ trying' = [c \in Creators |-> c \in cs \/ trying[c]]
  /\ UNCHANGED <<told, mailbox, answer>>

Post(c, confirmed) ==
  /\ trying[c] /\ answer[c].state = "none"
  /\ mailbox' = mailbox \cup {Last(c)}
  /\ told[Last(c)] = 0 /\ told' = [told EXCEPT ![Last(c)] = IF confirmed THEN 1 ELSE 0]
  /\ UNCHANGED <<letters, trying, answer>>

GiveUp(c) ==
  /\ trying[c] /\ trying' = [trying EXCEPT ![c] = FALSE]
  /\ UNCHANGED <<letters, told, mailbox, answer>>

Answer(c) ==
  /\ letters[c] > 0 /\ answer[c].state = "none" /\ ~trying[c] /\ told[Last(c)] = 1
  /\ \E choice \in Choice : answer' = [answer EXCEPT ![c] = [state |-> choice, by |-> letters[c]]]
  /\ UNCHANGED <<letters, trying, told, mailbox>>

Next ==
  \/ \E cs \in (SUBSET Creators) \ {{}} : Write(cs)
  \/ \E c \in Creators : Post(c, TRUE) \/ Post(c, FALSE) \/ GiveUp(c) \/ Answer(c)

Spec == Init /\ [][Next]_vars
=============================================================================
