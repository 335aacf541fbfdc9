--------------------------- MODULE TranslateText ---------------------------
(* The pure steps around a translation, translation/engine.py: segments merged *)
(* into sentence groups, a numbered reply read back, a group's translation cut  *)
(* back over its members. Characters are kinds: "a" a letter of a spaced       *)
(* script, "t" one of an unspaced script, "p" clause punctuation to cut after, *)
(* "c" a closing bracket, "m" a combining mark, "j" a sign that belongs to the *)
(* character after it, " " a space. Straight quotes are left out.              *)
EXTENDS Integers, FiniteSets, SequencesExt

CONSTANT MaxGroup   \* _MAX_GROUP_SEGMENTS

FirstOf(S) == CHOOSE a \in S : \A b \in S : a <= b
LastOf(S) == CHOOSE a \in S : \A b \in S : b <= a

-----------------------------------------------------------------------------
(* _merge_sentences. A segment: blank, whether its text ends a sentence, and   *)
(* its speaker, "" when unlabelled.                                            *)

\* Mutant: an unlabelled cue hides who spoke before it.
SpeakerThen(segs, first, i) == segs[i - 1].spk

\* The last known speaker of the group from first, before cue i.
Speaker(segs, first, i) ==
  LET known == {j \in first..(i - 1) : segs[j].spk # ""} IN
  IF known = {} THEN "" ELSE segs[LastOf(known)].spk

\* The first cue of each cue's group.
MergeSentences(segs) ==
  LET first[i \in 1..Len(segs)] ==
        IF i = 1 THEN 1
        ELSE LET open == first[i - 1]
                 change == {Speaker(segs, open, i), segs[i].spk} \ {""}
             IN IF segs[i - 1].final \/ i - open >= MaxGroup \/ Cardinality(change) = 2
                THEN i ELSE open
  IN first

-----------------------------------------------------------------------------
(* _parse_numbered. A reply is a sequence of lines: an item numbered n whose   *)
(* text is of (source items; a half of one ends in 0), or an unnumbered line,  *)
(* n = 0, of kind "text", "blank" or "fence".                                  *)

Mismatch == <<>>

\* Mutant: an item cut over two lines passes after the last number.
WrappedBefore(found, n, afterItem) == found # 0 /\ found < n

\* An unnumbered line of text that is the rest of an item, not chatter.
Wrapped(found, n, afterItem) == found # 0 /\ (found < n \/ afterItem)

ParseNumbered(reply, n) ==
  LET Line(acc, l) ==
        IF ~acc.ok THEN acc
        ELSE IF l.n = 0
        THEN IF l.kind = "text" /\ Wrapped(Cardinality(DOMAIN acc.found), n, acc.after)
             THEN [acc EXCEPT !.ok = FALSE]
             ELSE [acc EXCEPT !.after = FALSE]
        ELSE IF l.n \notin 1..n \/ l.n \in DOMAIN acc.found
        THEN [acc EXCEPT !.ok = FALSE]
        ELSE [acc EXCEPT !.after = TRUE,
                !.found = [x \in DOMAIN @ \cup {l.n} |-> IF x = l.n THEN l.of ELSE @[x]]]
      end == FoldLeft(Line, [ok |-> TRUE, found |-> [x \in {} |-> 0], after |-> FALSE], reply)
  IN IF end.ok /\ Cardinality(DOMAIN end.found) = n THEN [i \in 1..n |-> end.found[i]]
     ELSE Mismatch

\* What a model makes of a list of n items: the list itself, or one mishap.
Half(i) == <<i, 0>>
Number(items) == [i \in DOMAIN items |-> [n |-> i, kind |-> "item", of |-> items[i]]]
Plain(kind) == [n |-> 0, kind |-> kind, of |-> <<>>]
Items(n) == [i \in 1..n |-> <<i>>]
Replies(n) ==
  LET all == Number(Items(n))
      Cutoff(i) == [all EXCEPT ![i].of = Half(i)]
      text == Plain("text")
  IN {all, <<text>> \o all, all \o <<Plain("blank"), text>>, all \o <<text>>,
      <<Plain("fence")>> \o all \o <<Plain("fence")>>}
     \cup {Number(RemoveAt(Items(n), i)) : i \in 1..n}
     \cup {RemoveAt(all, i) : i \in 1..n}
     \cup {Append(all, all[i]) : i \in 1..n}
     \cup {Number(InsertAt([Items(n) EXCEPT ![i] = Half(i)], i, Half(i))) : i \in 1..n}
     \cup {InsertAt(Cutoff(i), i + 1, text) : i \in 1..n}
     \cup {Number(RemoveAt([Items(n) EXCEPT ![i] = <<i, i + 1>>], i + 1)) : i \in 1..(n - 1)}

-----------------------------------------------------------------------------
(* _redistribute: the reply t, stripped, cut over the live members of a group, *)
(* whose source lengths are lens. Positions are cuts: c stands after the first *)
(* c characters.                                                               *)

LenOf(lens) == FoldLeft(LAMBDA a, b : a + b, 0, lens)
HasText(t, a, b) == \E x \in (a + 1)..b : t[x] # " "
SmallestFrom(S, x) == CHOOSE c \in S : c >= x /\ \A d \in S : d >= x => c <= d

Unspaced(t) == 10 * Cardinality({x \in DOMAIN t : t[x] \in {"t", "j"}}) > 3 * Len(t)
Spaces(t) == {x - 1 : x \in {y \in DOMAIN t : t[y] = " "}}

\* After a clause mark and the closers behind it.
ClauseEnds(t) ==
  {SmallestFrom({c \in 0..Len(t) : c = Len(t) \/ t[c + 1] # "c"}, x)
     : x \in {y \in DOMAIN t : t[y] = "p"}}

\* Where a character cluster starts: the tail is reserved in these.
Clusters(t) == {x - 1 : x \in {y \in DOMAIN t : /\ t[y] \notin {" ", "m"}
                                                /\ (y > 1 => t[y - 1] # "j")}}

\* How many more cuts a tier takes after one at s, each leaving text.
Rooms(t, tier) ==
  LET room[s \in 0..Len(t)] ==
        LET at == IF HasText(t, s, Len(t))
                  THEN (CHOOSE x \in (s + 1)..Len(t) :
                          t[x] # " " /\ \A y \in (s + 1)..(x - 1) : t[y] = " ") - 1
                  ELSE Len(t)
            later == {b \in tier : b > at}
        IN IF later = {} THEN 0
           ELSE LET b == SmallestFrom(later, 0)
                IN IF b < Len(t) THEN 1 + room[b] ELSE 0
  IN room

\* Python's round of a / b: half to even.
Rounded(a, b) ==
  LET q == a \div b
      r == 2 * (a % b)
  IN IF r > b \/ (r = b /\ q % 2 = 1) THEN q + 1 ELSE q

\* Mutant: the tail is reserved in characters, spaces among them.
LimitChars(t, left) == Len(t) - left

\* One cluster start is left to each of the members still to come.
Limit(t, left) ==
  LET all == Clusters(t)
  IN CHOOSE c \in all : Cardinality({d \in all : d >= c}) = left

\* Where a wished cut settles: past the one before it, at or before the limit
\* when it would leave no text, and off the middle of a cluster.
Settle(t, prev, limit, forced) ==
  LET texted == SmallestFrom({c \in 0..Len(t) : c = Len(t) \/ HasText(t, prev, c)}, forced)
      Splits(c) == t[c + 1] = "m" \/ t[c] = "j"
  IN IF texted >= limit THEN texted
     ELSE SmallestFrom({c \in texted..limit : c = limit \/ ~Splits(c)}, texted)

Past(prev, c) == IF c > prev THEN c ELSE prev + 1
Smaller(a, b) == IF a < b THEN a ELSE b

\* The candidate nearest to the member's share, one that leaves room if any does.
Nearest(t, tier, usable, left, off) ==
  LET room == Rooms(t, tier)
      wide == {s \in usable : room[s] >= left}
  IN CHOOSE s \in usable : \A u \in usable :
       /\ wide # {} => s \in wide
       /\ u \in wide \/ wide = {} => off[s] < off[u] \/ (off[s] = off[u] /\ s <= u)

\* The cut that ends member i, the one before it at prev: a break of the first
\* tier with a usable one, else the member's share of the characters.
Cut(t, lens, i, prev) ==
  LET n == Len(lens)
      L == Len(t)
      total == LenOf(lens)
      acc == LenOf(SubSeq(lens, 1, i))
      off == [s \in 0..L |-> IF s * total >= L * acc THEN s * total - L * acc
                                                     ELSE L * acc - s * total]
      Usable(tier) == {s \in tier : /\ s > prev /\ HasText(t, prev, s)
                                    /\ Unspaced(t) => 4 * off[s] <= L * lens[i]}
      clauses == IF Unspaced(t) THEN Usable(ClauseEnds(t)) ELSE {}
      tier == IF clauses # {} THEN ClauseEnds(t) ELSE Spaces(t)
      limit == Limit(t, n - i)
  IN IF Usable(tier) # {}
     THEN Past(prev, Smaller(limit, Nearest(t, tier, Usable(tier), n - 1 - i, off)))
     ELSE Settle(t, prev, limit, Past(prev, Smaller(limit, Rounded(L * acc, total))))

\* The pieces, as spans of positions; a blank member's is empty. A reply with too
\* few clusters goes to the first member whole, for the caller to revert.
Redistribute(lens, t) ==
  LET live == SelectSeq([i \in DOMAIN lens |-> i], LAMBDA i : lens[i] > 0)
      sizes == [k \in DOMAIN live |-> lens[live[k]]]
      n == Len(live)
      cut[k \in 0..n] == IF k = 0 THEN 0
                         ELSE IF k = n THEN Len(t) ELSE Cut(t, sizes, k, cut[k - 1])
      Piece(k) == IF n > 1 /\ Cardinality(Clusters(t)) < n
                  THEN IF k = 1 THEN <<0, Len(t)>> ELSE <<0, 0>>
                  ELSE <<cut[k - 1], cut[k]>>
  IN [i \in DOMAIN lens |->
        IF lens[i] = 0 THEN <<0, 0>>
        ELSE Piece(CHOOSE k \in DOMAIN live : live[k] = i)]

=============================================================================
