---------------------------- MODULE SampleRingInv ----------------------------
(***************************************************************************)
(* The inductive invariant of SampleRing.                                  *)
(*                                                                         *)
(* Everything the reader has loaded is right as long as the ring has not   *)
(* lapped the sample it was loaded for, and the reader never needs more    *)
(* than that: its last step is to check that sample i was not lapped, and  *)
(* a sample is lapped before any younger one is.                           *)
(***************************************************************************)
EXTENDS SampleRing

\* A push of sample k + Capacity, into the slot of k, may have begun.
Lapped(k) == head >= k + Capacity

Intact(k) ==
    /\ stamps[Idx(k)] = log[k].stamp
    /\ data[Idx(k)] = log[k].pose
    /\ seq[Idx(k)] % 2 = 0

\* What a push in progress has done to the slot it fills.
WriterInv ==
    /\ wpc \in {"odd", "payload", "head"} =>
          /\ wh = head
          /\ wsample \in Samples
          /\ head > 0 => log[head - 1].stamp <= wsample.stamp
    /\ wpc = "payload" => wodd % 2 = 1
    /\ wpc = "head" => wtodo = {} /\ seq[Idx(wh)] % 2 = 0
    /\ wpc \in {"payload", "head"} =>
          /\ "stamp" \notin wtodo => stamps[Idx(wh)] = wsample.stamp
          /\ \A w \in Words \ wtodo : data[Idx(wh)][w] = wsample.pose[w]

\* The samples that are not lapped are in their slots, in stamp order.
RingInv ==
    /\ \A k \in 0 .. head - 1 : ~Lapped(k) => Intact(k)
    /\ StampsOrdered

-------------------------------------------------------------------------------
(* The reader's locals. *)

AtMost(k) == ~Lapped(k) => log[k].stamp <= req.t
Above(k)  == ~Lapped(k) => log[k].stamp > req.t
AboveAfter(k) == ~Lapped(k) => \A j \in k + 1 .. Newest(h) : log[j].stamp > req.t

WindowInv ==
    /\ rpc \notin {"idle", "head"} => h \in 0 .. head
    /\ rpc \notin {"idle", "head", "done"} => h > 0
    /\ rpc \notin {"idle", "head", "done", "t_old"} /\ ~Lapped(Oldest(h)) =>
          tOld = log[Oldest(h)].stamp
    /\ rpc \notin {"idle", "head", "done", "t_old", "t_new"} /\ ~Lapped(Newest(h)) =>
          tNew = log[Newest(h)].stamp

Searching == rpc \in {"hint", "up", "down", "bracket"}

SearchInv ==
    /\ Searching =>
          /\ tOld <= req.t /\ req.t < tNew
          /\ Oldest(h) <= i /\ i <= Newest(h)
          /\ req.op = "twist" => Oldest(h) # Newest(h)
    /\ rpc = "hint" => len = 1
    /\ rpc = "up" => i + len \div 2 <= Newest(h) /\ AtMost(i + len \div 2)
    /\ rpc = "down" => i - len \div 2 >= Oldest(h) /\ Above(i - len \div 2)
    /\ rpc = "bracket" => /\ i + len - 1 <= Newest(h)
                          /\ AtMost(i)
                          /\ AboveAfter(i + len - 1)

\* Why the reader settled on i: the newest sample alone, the newest segment,
\* or the bracket that was searched for.
OnNewest ==
    /\ i = Newest(h)
    /\ tOld <= req.t
    /\ \/ req.op = "sample" /\ req.t = tNew
       \/ req.t > tNew /\ req.policy = "Hold"
       \/ /\ req.op = "sample" /\ req.t > tNew /\ req.policy = "ConstantTwist"
          /\ Oldest(h) = Newest(h)

OnExtension ==
    /\ i = Newest(h) - 1 /\ Oldest(h) # Newest(h)
    /\ tOld <= req.t
    /\ req.t > tNew /\ req.policy = "ConstantTwist"

OnLastSegment ==
    /\ i = Newest(h) - 1 /\ Oldest(h) # Newest(h)
    /\ tOld <= req.t
    /\ req.op = "twist" /\ req.t = tNew

OnBracket ==
    /\ Oldest(h) <= i /\ i <= Newest(h)
    /\ tOld <= req.t /\ req.t < tNew
    /\ req.op = "twist" => Oldest(h) # Newest(h)
    /\ AtMost(i) /\ AboveAfter(i)

LowerRead == ~Lapped(i) => ti = log[i].stamp
UpperRead == ~Lapped(i) => tj = log[i + 1].stamp

Reading == rpc \in {"seq", "words", "reval"}

ChoiceInv ==
    /\ rpc = "t_i" => OnExtension \/ OnLastSegment \/ OnBracket
    /\ rpc = "t_j" => /\ OnLastSegment \/ OnBracket
                      /\ last = 1 /\ LowerRead
                      /\ req.op = "sample" => ti # req.t
    /\ Reading /\ last = 1 =>
          \/ OnExtension /\ LowerRead /\ tj = tNew
          \/ /\ OnLastSegment \/ OnBracket
             /\ LowerRead /\ UpperRead
             /\ IF req.op = "sample" THEN ti # req.t ELSE ti # tj
    /\ Reading /\ last = 0 =>
          \/ OnNewest
          \/ OnBracket /\ req.op = "sample" /\ LowerRead /\ ti = req.t

\* The slots read so far; a failed attempt is evidence that i was lapped.
SlotInv ==
    /\ ~Reading /\ rpc # "done" => off = 0 /\ tries = 0
    /\ Reading /\ off = 1 => last = 1
    /\ Reading /\ tries > 0 => Lapped(i)
    /\ Reading /\ off = 1 /\ ~Lapped(i) => bits[0] = log[i].pose
    /\ rpc = "words" /\ ~Lapped(i) =>
          /\ s1 = seq[Idx(i + off)]
          /\ \A w \in Words \ todo : bits[off][w] = log[i + off].pose[w]
    /\ rpc = "reval" => /\ off = last
                        /\ ~Lapped(i) => bits[off] = log[i + off].pose

\* The verdict: a success, or anything at all if head stood still.
DoneInv ==
    rpc = "done" /\ (Ok(res) \/ head = h) => Answers(log, req, h, res)

ReaderInv == WindowInv /\ SearchInv /\ ChoiceInv /\ SlotInv /\ DoneInv

IInv == TypeOK /\ WriterInv /\ RingInv /\ ReaderInv

-------------------------------------------------------------------------------
(* What read_slot hands back is one pose, unless seq goes all the way round   *)
(* while a lookup runs: then a lapped slot can look untouched.                *)

Poses == {s.pose : s \in Samples}

\* A slot that was ever filled holds a whole pose while its sequence is even.
WholeInv ==
    /\ wpc = "payload" => seq[Idx(wh)] = wodd
    /\ \A k \in 0 .. head - 1 : seq[Idx(k)] % 2 = 0 => data[Idx(k)] \in Poses

\* How far a sequence may have come since the lookup began, and that this is
\* less than all the way round.
Stage == IF wpc = "payload" THEN 1 ELSE IF wpc = "head" THEN 2 ELSE 0
Reach == 2 * (head - h + crashes) + Stage
Near  == 2 * (head - h + crashes + 1) < SeqModulus
Wrap(n) == IF n < SeqModulus THEN n ELSE n - SeqModulus

\* The sequence has come a steps from the one that was loaded; none means that
\* the slot is as it was.
Since(a) ==
    /\ seq[Idx(i + off)] = Wrap(s1 + a)
    /\ a = 0 => /\ data[Idx(i + off)] \in Poses
                /\ \A w \in Words \ todo : bits[off][w] = data[Idx(i + off)][w]

ReadInv ==
    Near => /\ rpc = "words" => s1 % 2 = 0 /\ \E a \in 0 .. Reach : Since(a)
            /\ Reading /\ off = 1 => bits[0] \in Poses
            /\ rpc = "reval" => bits[off] \in Poses
===============================================================================
