-------------------------- MODULE ComparatorProofs --------------------------
EXTENDS Comparator, SequenceTheorems, TLAPS

LEMMA InsertAtProperties ==
  ASSUME NEW S, NEW s \in Seq(S), NEW i \in 1..(Len(s) + 1), NEW e \in S
  PROVE  /\ InsertAt(s, i, e) \in Seq(S)
         /\ Len(InsertAt(s, i, e)) = Len(s) + 1
         /\ \A k \in 1..(Len(s) + 1) :
              InsertAt(s, i, e)[k] = IF k < i THEN s[k] ELSE IF k = i THEN e ELSE s[k - 1]
<1> DEFINE a == SubSeq(s, 1, i - 1)
           b == SubSeq(s, i, Len(s))
<1>1. a \in Seq(S) /\ Len(a) = i - 1 /\ \A k \in 1..(i - 1) : a[k] = s[k]
  BY SubSeqProperties, ElementOfSeq, LenProperties
<1>2. b \in Seq(S) /\ Len(b) = Len(s) - i + 1 /\ \A k \in 1..(Len(s) - i + 1) : b[k] = s[i + k - 1]
  BY SubSeqProperties, ElementOfSeq, LenProperties
<1>3. InsertAt(s, i, e) = (a \o <<e>>) \o b
  BY DEF InsertAt
<1>. HIDE DEF a, b
<1>4. <<e>> \in Seq(S) /\ Len(<<e>>) = 1 /\ <<e>>[1] = e
  OBVIOUS
<1>. DEFINE c == a \o <<e>>
<1>5. c \in Seq(S) /\ Len(c) = i /\ \A k \in 1..i : c[k] = IF k < i THEN s[k] ELSE e
  BY <1>1, <1>4, ConcatProperties
<1>. HIDE DEF c
<1>6. Len(s) \in Nat /\ i \in Nat
  BY LenProperties
<1>7. /\ c \o b \in Seq(S) /\ Len(c \o b) = Len(s) + 1
      /\ \A k \in 1..(Len(s) + 1) : (c \o b)[k] = IF k <= i THEN c[k] ELSE b[k - i]
  BY <1>2, <1>5, <1>6, ConcatProperties
<1>8. ASSUME NEW k \in 1..(Len(s) + 1)
      PROVE  (c \o b)[k] = IF k < i THEN s[k] ELSE IF k = i THEN e ELSE s[k - 1]
  <2>1. CASE k <= i
    BY <2>1, <1>5, <1>6, <1>7
  <2>2. CASE k > i
    <3>1. k - i \in 1..(Len(s) - i + 1) /\ i + (k - i) - 1 = k - 1
      BY <2>2, <1>6
    <3>2. (c \o b)[k] = b[k - i]
      BY <2>2, <1>6, <1>7
    <3>. QED
      BY <2>2, <3>1, <3>2, <1>2, <1>6
  <2>3. k <= i \/ k > i
    BY <1>6
  <2>. QED
    BY <2>1, <2>2, <2>3, Zenon
<1>. QED
  BY <1>3, <1>7, <1>8 DEF c

-----------------------------------------------------------------------------
(* What the expressions of one turn of the loop denote *)

LEMMA ReadFilteredType ==
  ASSUME TypeOK, InLoop
  PROVE  /\ ReadFiltered \in Seq(Entry) /\ Len(ReadFiltered) = Len(spike)
         /\ si + 1 \in 1..Len(spike) /\ SpikeEntry \in Entry
         /\ \A k \in 1..Len(spike) :
              /\ k # si + 1 => ReadFiltered[k] = spike[k]
              /\ ReadFiltered[k].pc = spike[k].pc
              /\ ReadFiltered[k].instr = spike[k].instr
              /\ ReadFiltered[k].target_reg = spike[k].target_reg
              /\ ReadFiltered[k].reg_val = spike[k].reg_val
              /\ ReadFiltered[k].mem_val = spike[k].mem_val
              /\ spike[k].mem_val # None => ReadFiltered[k].mem_addr = spike[k].mem_addr
<1>1. /\ spike \in Seq(Entry) /\ si \in Nat /\ Len(spike) \in Nat /\ si < Len(spike)
      /\ si + 1 \in 1..Len(spike)
  BY LenProperties DEF TypeOK, InLoop
<1>2. SpikeEntry \in Entry /\ SpikeEntry = spike[si + 1]
  BY <1>1, ElementOfSeq DEF SpikeEntry
<1>. DEFINE e == [SpikeEntry EXCEPT !.mem_addr = None]
<1>3. /\ e \in Entry /\ e.pc = SpikeEntry.pc /\ e.instr = SpikeEntry.instr
      /\ e.target_reg = SpikeEntry.target_reg /\ e.reg_val = SpikeEntry.reg_val
      /\ e.mem_val = SpikeEntry.mem_val /\ e.mem_addr = None
  BY <1>2 DEF Entry
<1>4. [spike EXCEPT ![si + 1].mem_addr = None] = [spike EXCEPT ![si + 1] = e]
  BY <1>1 DEF SpikeEntry
<1>. HIDE DEF e
<1>5. CASE SpikeEntry.mem_addr # None /\ SpikeEntry.mem_val = None
  <2>1. ReadFiltered = [spike EXCEPT ![si + 1] = e]
    BY <1>4, <1>5 DEF ReadFiltered
  <2>2. /\ ReadFiltered \in Seq(Entry) /\ Len(ReadFiltered) = Len(spike)
        /\ \A k \in 1..Len(spike) : ReadFiltered[k] = IF k = si + 1 THEN e ELSE spike[k]
    BY <2>1, <1>1, <1>3, ExceptSeq
  <2>. QED
    BY <2>2, <1>1, <1>2, <1>3, <1>5
<1>6. CASE ~(SpikeEntry.mem_addr # None /\ SpikeEntry.mem_val = None)
  BY <1>6, <1>1, <1>2 DEF ReadFiltered
<1>. QED
  BY <1>5, <1>6

LEMMA FilteredIsTrace ==
  ASSUME TypeOK, InLoop, IsTrace(spike)
  PROVE  IsTrace(ReadFiltered)
<1>. SUFFICES ASSUME NEW k \in 1..Len(spike)
              PROVE  LoggedBySpike(ReadFiltered[k])
  BY ReadFilteredType DEF IsTrace
<1>1. LoggedBySpike(spike[k])
  BY DEF IsTrace
<1>2. /\ ReadFiltered[k].instr = spike[k].instr
      /\ ReadFiltered[k].target_reg = spike[k].target_reg
      /\ ReadFiltered[k].reg_val = spike[k].reg_val
      /\ ReadFiltered[k].mem_val = spike[k].mem_val
      /\ spike[k].mem_val # None => ReadFiltered[k].mem_addr = spike[k].mem_addr
  BY ReadFilteredType
<1>. QED
  BY <1>1, <1>2 DEF LoggedBySpike

LEMMA FetchType ==
  ASSUME TypeOK, InLoop
  PROVE  /\ Fetch \in [pc : Nat, instr : Instr] /\ fi + 1 \in 0..Len(fetches)
         /\ Fetch.pc \in Nat /\ Fetch.instr \in Instr
         /\ Fetch.instr.kind \in Kinds /\ Fetch.instr.rd \in Reg
<1>1. fetches \in Seq([pc : Nat, instr : Instr])
  BY DEF TypeOK, Fragment
<1>2. fi + 1 \in 1..Len(fetches)
  BY <1>1, LenProperties DEF TypeOK, InLoop
<1>3. Fetch \in [pc : Nat, instr : Instr]
  BY <1>1, <1>2, ElementOfSeq DEF Fetch
<1>. QED
  BY <1>2, <1>3 DEF Instr

LEMMA SpikeEntryType ==
  ASSUME TypeOK, InLoop
  PROVE  /\ SpikeEntry \in Entry /\ si + 1 \in 0..Len(spike)
         /\ SpikeEntry.target_reg \in Reg \cup {None} /\ SpikeEntry.reg_val \in Value \cup {None}
         /\ SpikeEntry.mem_addr \in Nat \cup {None} /\ SpikeEntry.mem_val \in Word \cup {None}
         /\ IsTrace(spike) => LoggedBySpike(SpikeEntry)
         /\ IsTrace(spike) /\ SpikeEntry.target_reg # None => SpikeEntry.reg_val \in Value
<1>1. si + 1 \in 1..Len(spike) /\ SpikeEntry \in Entry
  BY ReadFilteredType
<1>2. IsTrace(spike) => LoggedBySpike(SpikeEntry)
  BY <1>1 DEF IsTrace, SpikeEntry
<1>. QED
  BY <1>1, <1>2 DEF Entry, LoggedBySpike

\* The invented commit, when there is one, is the write Spike made.
LEMMA WithInsertedType ==
  ASSUME TypeOK, InLoop, IsTrace(spike)
  PROVE  /\ WithInserted \in Seq(Commit)
         /\ Repeated => /\ Len(WithInserted) = Len(commits) + 1
                        /\ WithInserted[ci + 1] = [reg |-> SpikeEntry.target_reg,
                                                   val |-> SpikeEntry.reg_val, src |-> 0]
                        /\ \A k \in 1..ci : WithInserted[k] = commits[k]
                        /\ \A k \in (ci + 2)..Len(WithInserted) : WithInserted[k] = commits[k - 1]
         /\ ~Repeated => WithInserted = commits
<1>0. commits \in Seq(Commit) /\ ci \in Nat /\ Len(commits) \in Nat /\ ci + 1 \in 1..(Len(commits) + 1)
  BY LenProperties DEF TypeOK
<1>1. CASE Repeated
  <2>. DEFINE e == [reg |-> SpikeEntry.target_reg, val |-> SpikeEntry.reg_val, src |-> 0]
  <2>1. e \in Commit
    BY <1>1, SpikeEntryType DEF Repeated, Commit
  <2>2. WithInserted = InsertAt(commits, ci + 1, e)
    BY <1>1 DEF WithInserted
  <2>. HIDE DEF e
  <2>3. /\ WithInserted \in Seq(Commit)
        /\ Len(WithInserted) = Len(commits) + 1
        /\ \A k \in 1..(Len(commits) + 1) :
             WithInserted[k] = IF k < ci + 1 THEN commits[k]
                               ELSE IF k = ci + 1 THEN e ELSE commits[k - 1]
    <3>. DEFINE i == ci + 1
    <3>1. i \in 1..(Len(commits) + 1) /\ WithInserted = InsertAt(commits, i, e)
      BY <1>0, <2>2
    <3>. HIDE DEF i
    <3>2. /\ InsertAt(commits, i, e) \in Seq(Commit)
          /\ Len(InsertAt(commits, i, e)) = Len(commits) + 1
          /\ \A k \in 1..(Len(commits) + 1) :
               InsertAt(commits, i, e)[k] =
                 IF k < i THEN commits[k] ELSE IF k = i THEN e ELSE commits[k - 1]
      BY <1>0, <2>1, <3>1, InsertAtProperties, SMTT(30)
    <3>. QED
      BY <3>1, <3>2, Zenon DEF i
  <2>. QED
    BY <1>0, <1>1, <2>3 DEF e
<1>2. CASE ~Repeated
  BY <1>0, <1>2 DEF WithInserted
<1>. QED
  BY <1>1, <1>2

\* A swap exchanges the commit about to be consumed with the one after it, and
\* only when the latter is the one Spike expects and the former is not.
LEMMA ReorderedType ==
  ASSUME TypeOK, InLoop, NEW cs \in Seq(Commit), ci < Len(cs)
  PROVE  /\ Reordered(cs) \in Seq(Commit) /\ Len(Reordered(cs)) = Len(cs)
         /\ \/ Reordered(cs) = cs
            \/ /\ ci + 2 \in 1..Len(cs)
               /\ ~IsWriteOf(cs[ci + 1], SpikeEntry)
               /\ Reordered(cs)[ci + 1] = cs[ci + 2]
               /\ Reordered(cs)[ci + 2] = cs[ci + 1]
               /\ \A k \in 1..Len(cs) : k # ci + 1 /\ k # ci + 2 => Reordered(cs)[k] = cs[k]
<1>0. ci \in Nat /\ Len(cs) \in Nat /\ ci + 1 \in 1..Len(cs)
  BY LenProperties DEF TypeOK
<1>1. CASE /\ ci + 1 < Len(cs)
           /\ IsWriteOf(cs[ci + 2], SpikeEntry)
           /\ IsWriteOf(cs[ci + 1], NextSpikeEntry)
           /\ ~IsWriteOf(cs[ci + 1], SpikeEntry)
  <2>1. ci + 2 \in 1..Len(cs)
    BY <1>0, <1>1
  <2>2. cs[ci + 1] \in Commit /\ cs[ci + 2] \in Commit
    BY <1>0, <2>1, ElementOfSeq
  <2>. DEFINE once == [cs EXCEPT ![ci + 1] = cs[ci + 2]]
  <2>3. /\ once \in Seq(Commit) /\ Len(once) = Len(cs)
        /\ \A k \in 1..Len(cs) : once[k] = IF k = ci + 1 THEN cs[ci + 2] ELSE cs[k]
    BY <1>0, <2>2, ExceptSeq
  <2>4. Reordered(cs) = [once EXCEPT ![ci + 2] = cs[ci + 1]]
    BY <1>1 DEF Reordered
  <2>. HIDE DEF once
  <2>5. /\ Reordered(cs) \in Seq(Commit) /\ Len(Reordered(cs)) = Len(cs)
        /\ \A k \in 1..Len(cs) : Reordered(cs)[k] = IF k = ci + 2 THEN cs[ci + 1] ELSE once[k]
    BY <2>1, <2>2, <2>3, <2>4, ExceptSeq
  <2>. QED
    BY <1>0, <1>1, <2>1, <2>3, <2>5
<1>2. CASE ~(/\ ci + 1 < Len(cs)
             /\ IsWriteOf(cs[ci + 2], SpikeEntry)
             /\ IsWriteOf(cs[ci + 1], NextSpikeEntry)
             /\ ~IsWriteOf(cs[ci + 1], SpikeEntry))
  BY <1>2 DEF Reordered
<1>. QED
  BY <1>1, <1>2

\* The commits after an insertion and a reordering, for a write back: the first ci
\* are the old ones, and an invented commit is consumed at once.
LEMMA ForWriteBackType ==
  ASSUME TypeOK, InLoop, IsTrace(spike), ci < Len(WithInserted)
  PROVE  /\ ForWriteBack \in Seq(Commit) /\ Len(ForWriteBack) = Len(WithInserted)
         /\ ci + 1 \in 1..Len(ForWriteBack)
         /\ \A k \in 1..ci : ForWriteBack[k] = commits[k]
         /\ \/ ForWriteBack = WithInserted
            \/ /\ ~Repeated
               /\ ci + 2 \in 1..Len(commits)
               /\ ForWriteBack[ci + 1] = commits[ci + 2]
               /\ ForWriteBack[ci + 2] = commits[ci + 1]
               /\ \A k \in 1..Len(commits) :
                    k # ci + 1 /\ k # ci + 2 => ForWriteBack[k] = commits[k]
<1>0. ci \in Nat /\ Len(commits) \in Nat /\ ci <= Len(commits) /\ Len(WithInserted) \in Nat
      /\ WithInserted \in Seq(Commit)
  BY WithInsertedType, LenProperties DEF TypeOK
<1>1. \A k \in 1..ci : WithInserted[k] = commits[k]
  BY <1>0, WithInsertedType
<1>2. Repeated => IsWriteOf(WithInserted[ci + 1], SpikeEntry)
  BY WithInsertedType DEF IsWriteOf
<1>3. \/ ForWriteBack = WithInserted
      \/ ForWriteBack = Reordered(WithInserted)
  BY DEF ForWriteBack
<1>4. /\ Reordered(WithInserted) \in Seq(Commit) /\ Len(Reordered(WithInserted)) = Len(WithInserted)
      /\ \/ Reordered(WithInserted) = WithInserted
         \/ /\ ci + 2 \in 1..Len(WithInserted)
            /\ ~IsWriteOf(WithInserted[ci + 1], SpikeEntry)
            /\ Reordered(WithInserted)[ci + 1] = WithInserted[ci + 2]
            /\ Reordered(WithInserted)[ci + 2] = WithInserted[ci + 1]
            /\ \A k \in 1..Len(WithInserted) :
                 k # ci + 1 /\ k # ci + 2 => Reordered(WithInserted)[k] = WithInserted[k]
  BY <1>0, ReorderedType
<1>5. CASE ForWriteBack = WithInserted
  BY <1>0, <1>1, <1>5
<1>6. CASE ForWriteBack = Reordered(WithInserted) /\ ForWriteBack # WithInserted
  <2>1. ~Repeated
    BY <1>2, <1>4, <1>6
  <2>2. WithInserted = commits
    BY <2>1, WithInsertedType
  <2>. QED
    BY <1>0, <1>4, <1>6, <2>1, <2>2
<1>. QED
  BY <1>3, <1>5, <1>6

LEMMA StoredBytesType ==
  ASSUME NEW kind, NEW word \in Word, NEW addr \in Nat
  PROVE  StoredBytes(kind, word, addr) \in Word
<1>1. addr % 4 \in 0..3
  OBVIOUS
<1>. QED
  BY <1>1, ByteAssumption DEF StoredBytes, Word

-----------------------------------------------------------------------------
(* The row of each kind of turn *)

LEMMA BareRowType ==
  ASSUME TypeOK, InLoop
  PROVE  /\ BareRow \in Row /\ BareRow.speculative_fetch = FALSE
         /\ BareRow.instr = Fetch.instr /\ BareRow.at = si + 1
         /\ BareRow.src = 0 /\ BareRow.target_reg = None
  BY FetchType, SpikeEntryType DEF BareRow, Row, TypeOK

LEMMA SpeculativeRowType ==
  ASSUME TypeOK, InLoop
  PROVE  LET row == [BareRow EXCEPT !.speculative_fetch = TRUE]
         IN  row \in Row /\ row.speculative_fetch = TRUE
  BY BareRowType DEF Row

LEMMA FetchRowType ==
  ASSUME TypeOK, InLoop, NEW flag \in BOOLEAN
  PROVE  LET row == [BareRow EXCEPT !.speculative_commit = flag]
         IN  /\ row \in Row /\ row.speculative_fetch = FALSE
             /\ row.instr = Fetch.instr /\ row.at = si + 1
             /\ row.src = 0 /\ row.target_reg = None
  BY BareRowType DEF Row

LEMMA WriteRowType ==
  ASSUME TypeOK, InLoop, NEW flag \in BOOLEAN, NEW c \in Commit
  PROVE  LET row == [BareRow EXCEPT !.target_reg = c.reg, !.reg_val = c.val, !.src = c.src,
                                    !.speculative_commit = flag]
         IN  /\ row \in Row /\ row.speculative_fetch = FALSE
             /\ row.instr = Fetch.instr /\ row.at = si + 1 /\ row.src = c.src
             /\ row.target_reg = c.reg /\ row.reg_val = c.val
  BY BareRowType DEF Row, Commit

LEMMA StoreRowType ==
  ASSUME TypeOK, InLoop, NEW addr \in Nat, NEW word \in Word, NEW n \in Nat
  PROVE  LET row == [BareRow EXCEPT !.mem_addr = addr, !.mem_val = word, !.src = n]
         IN  /\ row \in Row /\ row.speculative_fetch = FALSE
             /\ row.instr = Fetch.instr /\ row.at = si + 1 /\ row.src = n
             /\ row.target_reg = None /\ row.mem_addr = addr /\ row.mem_val = word
<1>. DEFINE one == [BareRow EXCEPT !.mem_addr = addr]
            two == [one EXCEPT !.mem_val = word]
            row == [two EXCEPT !.src = n]
<1>1. /\ one \in Row /\ one.speculative_fetch = FALSE
      /\ one.instr = Fetch.instr /\ one.at = si + 1
      /\ one.target_reg = None /\ one.mem_addr = addr
  BY BareRowType DEF Row
<1>. HIDE DEF one
<1>2. /\ two \in Row /\ two.speculative_fetch = FALSE
      /\ two.instr = Fetch.instr /\ two.at = si + 1
      /\ two.target_reg = None /\ two.mem_addr = addr /\ two.mem_val = word
  BY <1>1 DEF Row
<1>. HIDE DEF two
<1>3. /\ row \in Row /\ row.speculative_fetch = FALSE
      /\ row.instr = Fetch.instr /\ row.at = si + 1 /\ row.src = n
      /\ row.target_reg = None /\ row.mem_addr = addr /\ row.mem_val = word
  BY <1>2 DEF Row
<1>. QED
  BY <1>3 DEF one, two

LEMMA EmitType ==
  ASSUME final \in Seq(Row), nonspec \in Seq(Row), NEW row \in Row, Emit(row)
  PROVE  /\ final' \in Seq(Row) /\ nonspec' \in Seq(Row)
         /\ row.speculative_fetch = TRUE => nonspec' = nonspec
         /\ row.speculative_fetch = FALSE => nonspec' = Append(nonspec, row)
  BY AppendProperties DEF Emit

-----------------------------------------------------------------------------
(* Types *)

TypeInv == TypeOK /\ IsTrace(spike)

LEMMA InitType == Init => TypeInv
<1>. SUFFICES ASSUME Init PROVE TypeInv
  OBVIOUS
<1>1. PICK t \in Traces : \E d \in Fragments(t) : input = [spike |-> t, dut |-> d]
  BY DEF Init
<1>2. PICK d \in Fragments(t) : input = [spike |-> t, dut |-> d]
  BY <1>1
<1>3. IsTrace(t) /\ t \in Seq(Entry) /\ d \in Fragment /\ input.spike = t /\ input.dut = d
  BY <1>2, InputAssumption DEF IsTrace
<1>4. input \in [spike : Seq(Entry), dut : Fragment]
  BY <1>2, <1>3
<1>5. commits \in Seq(Commit) /\ Len(commits) \in Nat
  <2>. DEFINE w == input.dut.commits
  <2>1. w \in Seq(Write) /\ Len(w) \in Nat
    BY <1>3, LenProperties DEF Fragment
  <2>2. \A k \in 1..Len(w) : w[k] \in Write
    BY <2>1, ElementOfSeq
  <2>3. \A k \in 1..Len(w) : [reg |-> w[k].reg, val |-> w[k].val, src |-> k] \in Commit
    BY <2>1, <2>2 DEF Commit, Write
  <2>4. commits = [k \in 1..Len(w) |-> [reg |-> w[k].reg, val |-> w[k].val, src |-> k]]
    BY DEF Init
  <2>. HIDE DEF w
  <2>. QED
    BY <2>1, <2>3, <2>4, LenProperties
<1>6. /\ mems \in Seq(Access) /\ Len(mems) \in Nat /\ spike \in Seq(Entry) /\ Len(spike) \in Nat
      /\ fetches = input.dut.fetches /\ Len(fetches) \in Nat
  BY <1>3, LenProperties DEF Init, Fragment
<1>7. spike_regfile \in [Reg -> Value]
  BY ValueAssumption DEF Init
<1>8. IsTrace(spike)
  BY <1>3 DEF Init
<1>. QED
  BY <1>3, <1>4, <1>5, <1>6, <1>7, <1>8, EmptySeq DEF Init, TypeInv, TypeOK

\* In the loop of generate_final_trace.
LEMMA SpeculativeFetchType ==
  ASSUME TypeInv, SpeculativeFetch
  PROVE  TypeInv'
<1>1. TypeOK /\ InLoop /\ IsTrace(spike)
  BY DEF TypeInv, SpeculativeFetch
<1>2. spike' \in Seq(Entry) /\ Len(spike') = Len(spike) /\ IsTrace(spike')
  BY <1>1, ReadFilteredType, FilteredIsTrace DEF SpeculativeFetch
<1>3. final' \in Seq(Row) /\ nonspec' \in Seq(Row)
  BY <1>1, SpeculativeRowType, EmitType DEF SpeculativeFetch, TypeOK
<1>4. fi' \in 0..Len(fetches')
  BY <1>1, FetchType DEF SpeculativeFetch
<1>. QED
  BY <1>1, <1>2, <1>3, <1>4 DEF SpeculativeFetch, TypeInv, TypeOK, cmpVars

LEMMA InsertionKeepsCursor ==
  ASSUME TypeInv, InLoop
  PROVE  WithInserted \in Seq(Commit) /\ ci \in 0..Len(WithInserted)
<1>1. WithInserted \in Seq(Commit) /\ (Len(WithInserted) = Len(commits) + 1 \/ WithInserted = commits)
  BY WithInsertedType DEF TypeInv
<1>. QED
  BY <1>1, LenProperties DEF TypeInv, TypeOK

LEMMA FetchOnlyType ==
  ASSUME TypeInv, FetchOnly
  PROVE  TypeInv'
<1>1. TypeOK /\ InLoop /\ IsTrace(spike)
  BY DEF TypeInv, FetchOnly, Matched
<1>2. spike' \in Seq(Entry) /\ Len(spike') = Len(spike) /\ IsTrace(spike')
  BY <1>1, ReadFilteredType, FilteredIsTrace DEF FetchOnly, Matched
<1>3. final' \in Seq(Row) /\ nonspec' \in Seq(Row)
  <2>. DEFINE flag == Fetch.instr.kind \in Writers /\ Repeated
  <2>1. flag \in BOOLEAN
    BY DEF Repeated
  <2>2. Emit([BareRow EXCEPT !.speculative_commit = flag])
    BY DEF FetchOnly
  <2>. HIDE DEF flag
  <2>. QED
    BY <1>1, <2>1, <2>2, FetchRowType, EmitType DEF TypeOK
<1>4. fi' \in 0..Len(fetches') /\ si' \in 0..Len(spike')
  BY <1>1, <1>2, FetchType, SpikeEntryType DEF FetchOnly
<1>5. commits' \in Seq(Commit) /\ ci' \in 0..Len(commits')
  BY <1>1, InsertionKeepsCursor DEF FetchOnly, TypeInv
<1>. QED
  BY <1>1, <1>2, <1>3, <1>4, <1>5 DEF FetchOnly, TypeInv, TypeOK, cmpVars

LEMMA UnknownInstructionType ==
  ASSUME TypeInv, UnknownInstruction
  PROVE  TypeInv'
<1>1. TypeOK /\ InLoop /\ IsTrace(spike)
  BY DEF TypeInv, UnknownInstruction, Matched
<1>2. spike' \in Seq(Entry) /\ Len(spike') = Len(spike) /\ IsTrace(spike')
  BY <1>1, ReadFilteredType, FilteredIsTrace DEF UnknownInstruction, Matched
<1>3. final' \in Seq(Row) /\ nonspec' \in Seq(Row)
  BY <1>1, SpeculativeRowType, EmitType DEF UnknownInstruction, TypeOK
<1>4. fi' \in 0..Len(fetches') /\ si' \in 0..Len(spike')
  BY <1>1, <1>2, FetchType, SpikeEntryType DEF UnknownInstruction
<1>5. commits' \in Seq(Commit) /\ ci' \in 0..Len(commits')
  BY <1>1, InsertionKeepsCursor DEF UnknownInstruction, TypeInv
<1>. QED
  BY <1>1, <1>2, <1>3, <1>4, <1>5 DEF UnknownInstruction, TypeInv, TypeOK, cmpVars

LEMMA WriteBackTypeInv ==
  ASSUME TypeInv, WriteBack
  PROVE  TypeInv'
<1>1. /\ TypeOK /\ InLoop /\ IsTrace(spike) /\ ci < Len(WithInserted)
      /\ SpikeEntry.target_reg # None
  BY DEF TypeInv, WriteBack, Matched
<1>2. spike' \in Seq(Entry) /\ Len(spike') = Len(spike) /\ IsTrace(spike')
  BY <1>1, ReadFilteredType, FilteredIsTrace DEF WriteBack, Matched
<1>3. /\ commits' \in Seq(Commit) /\ ci + 1 \in 1..Len(ForWriteBack)
      /\ ForWriteBack[ci + 1] \in Commit
  BY <1>1, ForWriteBackType, ElementOfSeq DEF WriteBack
<1>4. final' \in Seq(Row) /\ nonspec' \in Seq(Row)
  <2>. DEFINE c == ForWriteBack[ci + 1]
  <2>1. Repeated \in BOOLEAN
    BY DEF Repeated
  <2>2. Emit([BareRow EXCEPT !.target_reg = c.reg, !.reg_val = c.val, !.src = c.src,
                             !.speculative_commit = Repeated])
    BY DEF WriteBack
  <2>3. c \in Commit
    BY <1>3
  <2>. HIDE DEF c
  <2>. DEFINE row == [BareRow EXCEPT !.target_reg = c.reg, !.reg_val = c.val, !.src = c.src,
                                     !.speculative_commit = Repeated]
  <2>4. row \in Row
    BY <1>1, <2>1, <2>3, WriteRowType
  <2>5. Emit(row)
    BY <2>2
  <2>. HIDE DEF row
  <2>. QED
    BY <1>1, <2>4, <2>5, EmitType DEF TypeOK
<1>5. /\ fi' \in 0..Len(fetches') /\ si' \in 0..Len(spike') /\ ci' \in 0..Len(commits')
  BY <1>1, <1>2, <1>3, FetchType, SpikeEntryType DEF WriteBack
<1>6. spike_regfile' \in [Reg -> Value]
  BY <1>1, SpikeEntryType DEF WriteBack, TypeOK
<1>. QED
  BY <1>1, <1>2, <1>3, <1>4, <1>5, <1>6 DEF WriteBack, TypeInv, TypeOK, cmpVars

\* What a store takes from the DUT's next access.
LEMMA StoreOperands ==
  ASSUME TypeInv, Store
  PROVE  /\ TypeOK /\ InLoop /\ IsTrace(spike)
         /\ mi + 1 \in 1..Len(mems) /\ mems[mi + 1] \in Access
         /\ SpikeEntry.mem_addr \in Nat
         /\ mems[mi + 1].addr + (SpikeEntry.mem_addr % 4) \in Nat
         /\ StoredBytes(Fetch.instr.kind, mems[mi + 1].val, SpikeEntry.mem_addr) \in Word
<1>1. /\ TypeOK /\ InLoop /\ IsTrace(spike) /\ mi < Len(mems)
      /\ ReadFiltered[si + 1].mem_addr # None
  BY DEF TypeInv, Store, Matched
<1>2. mems \in Seq(Access) /\ mi + 1 \in 1..Len(mems)
  BY <1>1, LenProperties DEF TypeOK
<1>3. mems[mi + 1] \in Access
  BY <1>2, ElementOfSeq
<1>4. SpikeEntry.mem_addr # None
  <2>1. CASE SpikeEntry.mem_addr # None /\ SpikeEntry.mem_val = None
    BY <2>1
  <2>2. CASE ~(SpikeEntry.mem_addr # None /\ SpikeEntry.mem_val = None)
    BY <1>1, <2>2 DEF ReadFiltered, SpikeEntry
  <2>. QED
    BY <2>1, <2>2
<1>5. SpikeEntry.mem_addr \in Nat
  BY <1>1, <1>4, SpikeEntryType
<1>6. SpikeEntry.mem_addr % 4 \in 0..3
  BY <1>5
<1>. QED
  BY <1>1, <1>2, <1>3, <1>5, <1>6, StoredBytesType DEF Access

LEMMA StoreTypeInv ==
  ASSUME TypeInv, Store
  PROVE  TypeInv'
<1>. DEFINE addr == mems[mi + 1].addr + (SpikeEntry.mem_addr % 4)
            word == StoredBytes(Fetch.instr.kind, mems[mi + 1].val, SpikeEntry.mem_addr)
            row  == [BareRow EXCEPT !.mem_addr = addr, !.mem_val = word, !.src = mi + 1]
<1>1. /\ TypeOK /\ InLoop /\ IsTrace(spike) /\ addr \in Nat /\ word \in Word
      /\ mi + 1 \in 1..Len(mems) /\ mi + 1 \in Nat /\ mems[mi + 1] \in Access
  BY StoreOperands
<1>2. spike' \in Seq(Entry) /\ Len(spike') = Len(spike) /\ IsTrace(spike')
  BY <1>1, ReadFilteredType, FilteredIsTrace DEF Store, Matched
<1>3. mems' = [mems EXCEPT ![mi + 1].addr = addr] /\ Emit(row)
  BY DEF Store
<1>. HIDE DEF addr, word
<1>4. mems' \in Seq(Access) /\ Len(mems') = Len(mems)
  <2>. DEFINE a == [mems[mi + 1] EXCEPT !.addr = addr]
  <2>1. a \in Access
    BY <1>1 DEF Access
  <2>2. mems' = [mems EXCEPT ![mi + 1] = a]
    BY <1>3
  <2>. HIDE DEF a
  <2>. QED
    BY <1>1, <2>1, <2>2, ExceptSeq DEF TypeOK
<1>5. row \in Row
  BY <1>1, StoreRowType
<1>. HIDE DEF row
<1>6. final' \in Seq(Row) /\ nonspec' \in Seq(Row)
  BY <1>1, <1>3, <1>5, EmitType DEF TypeOK
<1>7. /\ fi' \in 0..Len(fetches') /\ si' \in 0..Len(spike') /\ mi' \in 0..Len(mems')
  BY <1>1, <1>2, <1>4, FetchType, SpikeEntryType DEF Store
<1>8. commits' \in Seq(Commit) /\ ci' \in 0..Len(commits')
  BY <1>1, InsertionKeepsCursor DEF Store, TypeInv
<1>. QED
  BY <1>1, <1>2, <1>4, <1>6, <1>7, <1>8 DEF Store, TypeInv, TypeOK, cmpVars

LEMMA LeaveLoopType ==
  ASSUME TypeInv, EndOfSpike \/ OutOfFetches \/ OutOfCommits \/ OutOfAccesses \/ GenerateRaises
  PROVE  TypeInv'
<1>1. CASE EndOfSpike \/ OutOfFetches \/ GenerateRaises
  BY <1>1 DEF EndOfSpike, OutOfFetches, GenerateRaises, LeaveLoop, TypeInv, TypeOK, genVars, cmpVars
<1>2. CASE OutOfCommits
  <2>1. TypeOK /\ InLoop /\ IsTrace(spike)
    BY <1>2 DEF TypeInv, OutOfCommits, Matched
  <2>2. spike' \in Seq(Entry) /\ Len(spike') = Len(spike) /\ IsTrace(spike')
    BY <1>2, <2>1, ReadFilteredType, FilteredIsTrace DEF OutOfCommits, Matched
  <2>. QED
    BY <1>2, <2>1, <2>2 DEF OutOfCommits, LeaveLoop, TypeInv, TypeOK, cmpVars
<1>3. CASE OutOfAccesses
  <2>1. TypeOK /\ InLoop /\ IsTrace(spike)
    BY <1>3 DEF TypeInv, OutOfAccesses, Matched
  <2>2. spike' \in Seq(Entry) /\ Len(spike') = Len(spike) /\ IsTrace(spike')
    BY <1>3, <2>1, ReadFilteredType, FilteredIsTrace DEF OutOfAccesses, Matched
  <2>3. commits' \in Seq(Commit) /\ ci' \in 0..Len(commits')
    BY <1>3, <2>1, InsertionKeepsCursor DEF OutOfAccesses, TypeInv
  <2>. QED
    BY <1>3, <2>1, <2>2, <2>3 DEF OutOfAccesses, LeaveLoop, TypeInv, TypeOK, cmpVars
<1>. QED
  BY <1>1, <1>2, <1>3

\* In compare_traces.
LEMMA ComparedTypes ==
  ASSUME TypeInv, Comparing
  PROVE  /\ cmp + 1 \in 1..Len(spike) /\ spike[cmp + 1] \in Entry
         /\ cmp < Len(nonspec) => /\ cmp + 1 \in 1..Len(nonspec)
                                  /\ nonspec[cmp + 1] \in Row
                                  /\ Strip(nonspec[cmp + 1]) \in Reported
         /\ EmptyEntry \in Reported
         /\ ClearedReport \in Seq([spike : Entry, dut : Reported])
         /\ Len(ClearedReport) = Len(mismatches)
<1>1. /\ TypeOK /\ spike \in Seq(Entry) /\ nonspec \in Seq(Row) /\ cmp \in Nat
      /\ Len(spike) \in Nat /\ Len(nonspec) \in Nat /\ cmp < Len(spike)
      /\ mismatches \in Seq([spike : Entry, dut : Reported]) /\ Len(mismatches) \in Nat
  BY LenProperties DEF TypeInv, TypeOK, Comparing
<1>2. cmp + 1 \in 1..Len(spike) /\ spike[cmp + 1] \in Entry
  BY <1>1, ElementOfSeq
<1>3. ASSUME cmp < Len(nonspec)
      PROVE  /\ cmp + 1 \in 1..Len(nonspec) /\ nonspec[cmp + 1] \in Row
             /\ Strip(nonspec[cmp + 1]) \in Reported
  <2>1. cmp + 1 \in 1..Len(nonspec) /\ nonspec[cmp + 1] \in Row
    BY <1>1, <1>3, ElementOfSeq
  <2>. QED
    BY <2>1 DEF Strip, Row, Reported
<1>4. EmptyEntry \in Reported
  BY DEF EmptyEntry, Reported
<1>5. /\ ClearedReport \in Seq([spike : Entry, dut : Reported])
      /\ Len(ClearedReport) = Len(mismatches)
  <2>1. CASE IsLoad(spike[cmp + 1]) /\ dut_entry = "reported"
    <3>. DEFINE last == mismatches[Len(mismatches)]
                cleared == [spike |-> last.spike, dut |-> [last.dut EXCEPT !.mem_addr = None]]
    <3>1. mismatches # << >>
      BY <1>1, <2>1 DEF TypeOK
    <3>2. Len(mismatches) \in 1..Len(mismatches)
      BY <1>1, <3>1, EmptySeq
    <3>3. last \in [spike : Entry, dut : Reported]
      BY <1>1, <3>2, ElementOfSeq
    <3>4. cleared \in [spike : Entry, dut : Reported]
      BY <3>3 DEF Reported
    <3>5. ClearedReport = [mismatches EXCEPT ![Len(mismatches)] = cleared]
      <4>1. [last EXCEPT !.dut.mem_addr = None] = cleared
        BY <3>3
      <4>2. ClearedReport = [mismatches EXCEPT ![Len(mismatches)] =
                               [last EXCEPT !.dut.mem_addr = None]]
        BY <2>1 DEF ClearedReport
      <4>. QED
        BY <4>1, <4>2
    <3>. HIDE DEF cleared
    <3>. QED
      BY <1>1, <3>2, <3>4, <3>5, ExceptSeq
  <2>2. CASE ~(IsLoad(spike[cmp + 1]) /\ dut_entry = "reported")
    BY <1>1, <2>2 DEF ClearedReport
  <2>. QED
    BY <2>1, <2>2
<1>. QED
  BY <1>2, <1>3, <1>4, <1>5

\* An entry added to the report.
LEMMA ReportGrows ==
  ASSUME NEW S, NEW s \in Seq(S), NEW e \in S
  PROVE  Append(s, e) \in Seq(S) /\ Append(s, e) # << >>
<1>1. Append(s, e) \in Seq(S) /\ Len(Append(s, e)) = Len(s) + 1 /\ Len(s) \in Nat
  BY AppendProperties, LenProperties
<1>2. Len(Append(s, e)) # 0
  BY <1>1
<1>. QED
  BY <1>1, <1>2, EmptySeq

LEMMA CompareType ==
  ASSUME TypeInv, Compare
  PROVE  TypeInv'
<1>0. TypeOK /\ IsTrace(spike)
  BY DEF TypeInv
<1>1. CASE CompareEqual
  <2>1. /\ TypeOK' /\ IsTrace(spike)'
    <3>1. mismatches' \in Seq([spike : Entry, dut : Reported]) /\ cmp' \in 0..Len(spike')
      BY <1>1, ComparedTypes DEF CompareEqual, genVars
    <3>2. dut_entry' = "private"
      BY <1>1 DEF CompareEqual
    <3>. QED
      BY <1>0, <1>1, <3>1, <3>2 DEF CompareEqual, TypeOK, genVars
  <2>. QED
    BY <2>1 DEF TypeInv
<1>2. CASE CompareDifferent
  <2>. DEFINE e == [spike |-> spike[cmp + 1], dut |-> Strip(nonspec[cmp + 1])]
  <2>1. /\ ClearedReport \in Seq([spike : Entry, dut : Reported])
        /\ e \in [spike : Entry, dut : Reported]
        /\ mismatches' = Append(ClearedReport, e)
        /\ cmp' \in 0..Len(spike')
    BY <1>2, ComparedTypes DEF CompareDifferent, genVars
  <2>. HIDE DEF e
  <2>2. mismatches' \in Seq([spike : Entry, dut : Reported]) /\ mismatches' # << >>
    BY <2>1, ReportGrows, Zenon
  <2>. QED
    BY <1>0, <1>2, <2>1, <2>2 DEF CompareDifferent, TypeInv, TypeOK, genVars
<1>3. CASE CompareOutOfEntries
  <2>. DEFINE e == [spike |-> spike[cmp + 1], dut |-> EmptyEntry]
  <2>1. /\ e \in [spike : Entry, dut : Reported]
        /\ mismatches' = Append(mismatches, e)
    BY <1>3, ComparedTypes DEF CompareOutOfEntries
  <2>. HIDE DEF e
  <2>2. mismatches' \in Seq([spike : Entry, dut : Reported]) /\ mismatches' # << >>
    BY <1>0, <2>1, ReportGrows, Zenon DEF TypeOK
  <2>. QED
    BY <1>0, <1>3, <2>2 DEF CompareOutOfEntries, TypeInv, TypeOK, genVars
<1>4. CASE CompareEnd
  BY <1>0, <1>4 DEF CompareEnd, TypeInv, TypeOK, genVars, cmpVars
<1>5. CASE CompareRaises
  BY <1>0, <1>5 DEF CompareRaises, TypeInv, TypeOK, genVars, cmpVars
<1>. QED
  BY <1>1, <1>2, <1>3, <1>4, <1>5 DEF Compare

LEMMA NextType == TypeInv /\ [Next]_vars => TypeInv'
<1>1. ASSUME TypeInv, Generate PROVE TypeInv'
  BY <1>1, SpeculativeFetchType, FetchOnlyType, WriteBackTypeInv, StoreTypeInv,
     UnknownInstructionType, LeaveLoopType DEF Generate
<1>2. ASSUME TypeInv, UNCHANGED vars PROVE TypeInv'
  BY <1>2 DEF vars, genVars, cmpVars, TypeInv, TypeOK
<1>. QED
  BY <1>1, <1>2, CompareType DEF Next

LEMMA AlwaysTyped == Spec => []TypeInv
<1>1. Init => TypeInv
  BY InitType
<1>. QED
  BY <1>1, NextType, PTL DEF Spec

\* Types: every record the merge builds, and every value it takes from the two
\* traces by an index, is one of the traces' entries; no index leaves its trace.
THEOREM TypeCorrect == Spec => []TypeOK
<1>1. TypeInv => TypeOK
  BY DEF TypeInv
<1>. QED
  BY <1>1, AlwaysTyped, PTL

-----------------------------------------------------------------------------
(* The commits: what a step does to them, and what it keeps of them *)

LEMMA StepOfCommits ==
  ASSUME TypeInv, [Next]_vars
  PROVE  /\ input' = input
         /\ \/ commits' = commits
            \/ InLoop /\ commits' = WithInserted
            \/ InLoop /\ ci < Len(WithInserted) /\ commits' = ForWriteBack
<1>1. CASE Generate
  BY <1>1 DEF Generate, EndOfSpike, OutOfFetches, OutOfCommits, OutOfAccesses, SpeculativeFetch,
     FetchOnly, WriteBack, Store, UnknownInstruction, GenerateRaises, Matched, LeaveLoop, genVars
<1>2. CASE Compare
  BY <1>2 DEF Compare, CompareEqual, CompareDifferent, CompareOutOfEntries, CompareEnd,
     CompareRaises, genVars
<1>3. CASE UNCHANGED vars
  BY <1>3 DEF vars, genVars
<1>. QED
  BY <1>1, <1>2, <1>3 DEF Next

\* A commit that was consumed is history: no later insertion or reordering moves
\* or replaces it.
THEOREM ConsumedFixed == Spec => ConsumedCommitsFixed
<1>1. ASSUME TypeInv, [Next]_vars
      PROVE  \A k \in 1..ci : commits'[k] = commits[k]
  <2>1. TypeOK /\ IsTrace(spike)
    BY <1>1 DEF TypeInv
  <2>2. CASE commits' = commits
    BY <2>2
  <2>3. CASE InLoop /\ commits' = WithInserted
    BY <2>1, <2>3, WithInsertedType
  <2>4. CASE InLoop /\ ci < Len(WithInserted) /\ commits' = ForWriteBack
    BY <2>1, <2>4, ForWriteBackType
  <2>. QED
    BY <1>1, <2>2, <2>3, <2>4, StepOfCommits
<1>2. TypeInv /\ [Next]_vars => [\A k \in 1..ci : commits'[k] = commits[k]]_vars
  BY <1>1
<1>. QED
  BY <1>2, AlwaysTyped, PTL DEF Spec, ConsumedCommitsFixed

FromDut(c) == c.src # 0 => /\ c.src \in 1..Len(input.dut.commits)
                           /\ input.dut.commits[c.src] = [reg |-> c.reg, val |-> c.val]
Kept(cs) ==
  /\ \A k \in 1..Len(cs) : FromDut(cs[k])
  /\ \A k, m \in 1..Len(cs) : cs[k].src = cs[m].src /\ cs[k].src # 0 => k = m
  /\ \A j \in 1..Len(input.dut.commits) : \E k \in 1..Len(cs) : cs[k].src = j

LEMMA InsertionKeeps ==
  ASSUME TypeInv, InLoop, Kept(commits)
  PROVE  Kept(WithInserted)
<1>1. TypeOK /\ IsTrace(spike)
  BY DEF TypeInv
<1>2. CASE ~Repeated
  BY <1>1, <1>2, WithInsertedType
<1>3. CASE Repeated
  <2>. DEFINE cs == WithInserted
              old(k) == IF k <= ci THEN k ELSE k - 1
              new(k) == IF k <= ci THEN k ELSE k + 1
  <2>1. /\ ci \in Nat /\ Len(commits) \in Nat /\ ci <= Len(commits)
        /\ Len(cs) = Len(commits) + 1
        /\ cs[ci + 1].src = 0
        /\ \A k \in 1..ci : cs[k] = commits[k]
        /\ \A k \in (ci + 2)..Len(cs) : cs[k] = commits[k - 1]
    <3>1. ci \in Nat /\ Len(commits) \in Nat /\ ci <= Len(commits)
      BY <1>1, LenProperties DEF TypeOK
    <3>2. /\ Len(WithInserted) = Len(commits) + 1
          /\ WithInserted[ci + 1] = [reg |-> SpikeEntry.target_reg,
                                     val |-> SpikeEntry.reg_val, src |-> 0]
          /\ \A k \in 1..ci : WithInserted[k] = commits[k]
          /\ \A k \in (ci + 2)..Len(WithInserted) : WithInserted[k] = commits[k - 1]
      BY <1>1, <1>3, WithInsertedType, Zenon
    <3>. QED
      BY <3>1, <3>2
  <2>. HIDE DEF cs
  <2>2. \A k \in 1..Len(cs) : k # ci + 1 => old(k) \in 1..Len(commits) /\ cs[k] = commits[old(k)]
    BY <2>1
  <2>3. \A k \in 1..Len(commits) : new(k) \in 1..Len(cs) /\ cs[new(k)] = commits[k]
    BY <2>1
  <2>4. \A k \in 1..Len(cs) : FromDut(cs[k])
    <3>1. \A k \in 1..Len(commits) : FromDut(commits[k])
      BY DEF Kept
    <3>2. FromDut(cs[ci + 1])
      BY <2>1 DEF FromDut
    <3>. QED
      BY <2>2, <3>1, <3>2, Zenon
  <2>5. \A k, m \in 1..Len(cs) : cs[k].src = cs[m].src /\ cs[k].src # 0 => k = m
    <3>. TAKE k, m \in 1..Len(cs)
    <3>. HAVE cs[k].src = cs[m].src /\ cs[k].src # 0
    <3>1. k # ci + 1 /\ m # ci + 1
      BY <2>1
    <3>2. \A p, q \in 1..Len(commits) :
            commits[p].src = commits[q].src /\ commits[p].src # 0 => p = q
      BY DEF Kept
    <3>3. old(k) = old(m)
      BY <2>2, <3>1, <3>2, Zenon
    <3>. QED
      BY <2>1, <3>1, <3>3
  <2>6. \A j \in 1..Len(input.dut.commits) : \E k \in 1..Len(cs) : cs[k].src = j
    <3>. TAKE j \in 1..Len(input.dut.commits)
    <3>1. PICK k \in 1..Len(commits) : commits[k].src = j
      BY DEF Kept
    <3>2. new(k) \in 1..Len(cs) /\ cs[new(k)] = commits[k]
      BY <2>3
    <3>. QED
      BY <3>1, <3>2
  <2>. QED
    BY <2>4, <2>5, <2>6 DEF Kept, cs
<1>. QED
  BY <1>2, <1>3

LEMMA ReorderingKeeps ==
  ASSUME TypeInv, InLoop, ci < Len(WithInserted), Kept(commits)
  PROVE  Kept(ForWriteBack)
<1>. DEFINE cs == ForWriteBack
            at(k) == IF k = ci + 1 THEN ci + 2 ELSE IF k = ci + 2 THEN ci + 1 ELSE k
<1>0. TypeOK /\ IsTrace(spike)
  BY DEF TypeInv
<1>1. CASE cs = WithInserted
  BY <1>1, InsertionKeeps
<1>2. CASE cs # WithInserted
  <2>1. /\ ci \in Nat /\ Len(commits) \in Nat /\ ci + 2 <= Len(commits)
        /\ Len(cs) = Len(commits)
        /\ cs[ci + 1] = commits[ci + 2] /\ cs[ci + 2] = commits[ci + 1]
        /\ \A k \in 1..Len(commits) : k # ci + 1 /\ k # ci + 2 => cs[k] = commits[k]
    BY <1>0, <1>2, ForWriteBackType, WithInsertedType, LenProperties DEF TypeOK
  <2>. HIDE DEF cs
  <2>2. \A k \in 1..Len(cs) : at(k) \in 1..Len(cs) /\ cs[k] = commits[at(k)] /\ at(at(k)) = k
    BY <2>1
  <2>3. \A k \in 1..Len(cs) : FromDut(cs[k])
    <3>1. \A k \in 1..Len(commits) : FromDut(commits[k])
      BY DEF Kept
    <3>. QED
      BY <2>1, <2>2, <3>1, Zenon
  <2>4. \A k, m \in 1..Len(cs) : cs[k].src = cs[m].src /\ cs[k].src # 0 => k = m
    <3>. TAKE k, m \in 1..Len(cs)
    <3>. HAVE cs[k].src = cs[m].src /\ cs[k].src # 0
    <3>1. \A p, q \in 1..Len(commits) :
            commits[p].src = commits[q].src /\ commits[p].src # 0 => p = q
      BY DEF Kept
    <3>2. /\ at(k) \in 1..Len(commits) /\ at(m) \in 1..Len(commits)
          /\ commits[at(k)].src = commits[at(m)].src /\ commits[at(k)].src # 0
          /\ at(at(k)) = k /\ at(at(m)) = m
      BY <2>1, <2>2
    <3>. HIDE DEF at
    <3>3. at(k) = at(m)
      BY <3>1, <3>2, Zenon
    <3>. QED
      BY <3>2, <3>3, Zenon
  <2>5. \A j \in 1..Len(input.dut.commits) : \E k \in 1..Len(cs) : cs[k].src = j
    <3>. TAKE j \in 1..Len(input.dut.commits)
    <3>1. PICK k \in 1..Len(commits) : commits[k].src = j
      BY DEF Kept
    <3>2. k \in 1..Len(cs) /\ at(k) \in 1..Len(cs) /\ cs[at(k)] = commits[k]
      BY <2>1, <2>2
    <3>. QED
      BY <3>1, <3>2
  <2>. QED
    BY <2>3, <2>4, <2>5 DEF Kept, cs
<1>. QED
  BY <1>1, <1>2

LEMMA InitKept == Init => Kept(commits)
<1>. SUFFICES ASSUME Init PROVE Kept(commits)
  OBVIOUS
<1>. DEFINE w == input.dut.commits
<1>1. commits = [k \in 1..Len(w) |-> [reg |-> w[k].reg, val |-> w[k].val, src |-> k]]
  BY DEF Init
<1>2. w \in Seq(Write) /\ Len(w) \in Nat
  BY InitType, LenProperties DEF TypeInv, TypeOK, Fragment
<1>3. \A k \in 1..Len(w) : w[k] \in Write
  BY <1>2, ElementOfSeq
<1>4. Len(commits) = Len(w)
  BY <1>1, <1>2, InitType, LenProperties DEF TypeInv, TypeOK
<1>5. ASSUME NEW k \in 1..Len(w)
      PROVE  commits[k].src = k /\ w[k] = [reg |-> commits[k].reg, val |-> commits[k].val]
  BY <1>1, <1>3, SMTT(30) DEF Write
<1>6. \A k \in 1..Len(commits) : FromDut(commits[k])
  BY <1>4, <1>5 DEF FromDut
<1>7. \A k, m \in 1..Len(commits) : commits[k].src = commits[m].src => k = m
  <2>1. \A k \in 1..Len(commits) : commits[k].src = k
    BY <1>4, <1>5
  <2>. QED
    BY <2>1, Zenon
<1>8. \A j \in 1..Len(w) : \E k \in 1..Len(commits) : commits[k].src = j
  BY <1>4, <1>5
<1>. QED
  BY <1>6, <1>7, <1>8 DEF Kept

LEMMA NextKept == TypeInv /\ Kept(commits) /\ [Next]_vars => Kept(commits)'
<1>. SUFFICES ASSUME TypeInv, Kept(commits), [Next]_vars PROVE Kept(commits)'
  OBVIOUS
<1>1. Kept(commits) /\ (InLoop => Kept(WithInserted))
      /\ (InLoop /\ ci < Len(WithInserted) => Kept(ForWriteBack))
  BY InsertionKeeps, ReorderingKeeps
<1>2. input' = input /\ Kept(commits')
  BY <1>1, StepOfCommits
<1>. QED
  BY <1>2 DEF Kept, FromDut

LEMMA AlwaysKept == Spec => []Kept(commits)
BY InitKept, NextKept, AlwaysTyped, PTL DEF Spec

\* No commit of the DUT is lost, altered or counted twice by the insertions and
\* swaps the merge makes in the list it is consuming.
THEOREM CommitsNeverLost == Spec => []CommitsKept
<1>1. TypeInv /\ Kept(commits) => CommitsKept
  <2>. SUFFICES ASSUME TypeInv, Kept(commits), NEW j \in 1..Len(input.dut.commits)
                PROVE  \E k \in 1..Len(commits) :
                         /\ commits[k].src = j
                         /\ [reg |-> commits[k].reg, val |-> commits[k].val] = input.dut.commits[j]
                         /\ \A m \in 1..Len(commits) : commits[m].src = j => m = k
    BY DEF CommitsKept
  <2>1. PICK k \in 1..Len(commits) : commits[k].src = j
    BY DEF Kept
  <2>2. j # 0
    OBVIOUS
  <2>. WITNESS k \in 1..Len(commits)
  <2>. QED
    BY <2>1, <2>2 DEF Kept, FromDut
<1>. QED
  BY <1>1, AlwaysTyped, AlwaysKept, PTL

=============================================================================
