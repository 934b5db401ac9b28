-------------------------- MODULE AuditLedgerProofs --------------------------
(***************************************************************************)
(* The head hash of a ledger that is tampered with, for any payloads and   *)
(* any number of events and edits.                                         *)
(***************************************************************************)
EXTENDS AuditLedger, DomainProofs

\* Whatever single field is overwritten, the ledger still holds events.
LEMMA EditFieldType ==
    ASSUME TypeOK, NEW i \in DOMAIN stored, EditField(i), MaxEvents \in Nat
    PROVE  stored' \in Seq(Event(Payloads))
<1> DEFINE H == Seq(Nat \X AuditEventType \X Payloads)
<1>1. stored \in Seq(Event(Payloads)) /\ stored[i] \in Event(Payloads)
  BY DEF TypeOK
<1>2. ASSUME NEW j \in DOMAIN stored
      PROVE  stored[j].event_hash \in H
  <2>1. stored[j] \in Event(Payloads)
    BY <1>1
  <2>2. QED
    BY <2>1 DEF Event
<1>3. CASE \E p \in Payloads : stored' = [stored EXCEPT ![i].payload = p]
  <2>1. PICK p \in Payloads : stored' = [stored EXCEPT ![i].payload = p]
    BY <1>3
  <2>2. [stored[i] EXCEPT !.payload = p] \in Event(Payloads)
    BY <1>1 DEF Event
  <2>3. QED
    BY <1>1, <2>1, <2>2
<1>4. CASE \E t \in AuditEventType : stored' = [stored EXCEPT ![i].type = t]
  <2>1. PICK t \in AuditEventType : stored' = [stored EXCEPT ![i].type = t]
    BY <1>4
  <2>2. [stored[i] EXCEPT !.type = t] \in Event(Payloads)
    BY <1>1 DEF Event
  <2>3. QED
    BY <1>1, <2>1, <2>2
<1>5. CASE \E n \in 1 .. MaxEvents : stored' = [stored EXCEPT ![i].sequence = n]
  <2>1. PICK n \in 1 .. MaxEvents : stored' = [stored EXCEPT ![i].sequence = n]
    BY <1>5
  <2>2. n \in Nat
    OBVIOUS
  <2>3. [stored[i] EXCEPT !.sequence = n] \in Event(Payloads)
    BY <1>1, <2>2 DEF Event
  <2>4. QED
    BY <1>1, <2>1, <2>3
<1>6. CASE \E j \in DOMAIN stored :
            stored' = [stored EXCEPT ![i].previous_hash = stored[j].event_hash]
  <2>1. PICK j \in DOMAIN stored :
            stored' = [stored EXCEPT ![i].previous_hash = stored[j].event_hash]
    BY <1>6
  <2>2. [stored[i] EXCEPT !.previous_hash = stored[j].event_hash] \in Event(Payloads)
    BY <1>1, <1>2 DEF Event
  <2>3. QED
    BY <1>1, <2>1, <2>2
<1>7. CASE \E j \in DOMAIN stored :
            stored' = [stored EXCEPT ![i].event_hash = stored[j].event_hash]
  <2>1. PICK j \in DOMAIN stored :
            stored' = [stored EXCEPT ![i].event_hash = stored[j].event_hash]
    BY <1>7
  <2>2. [stored[i] EXCEPT !.event_hash = stored[j].event_hash] \in Event(Payloads)
    BY <1>1, <1>2 DEF Event
  <2>3. QED
    BY <1>1, <2>1, <2>2
<1>8. QED
  BY <1>3, <1>4, <1>5, <1>6, <1>7 DEF EditField

\* An edit can only copy a digest, never make one.
NoForgedHash ==
    \A i \in DOMAIN stored : \E j \in DOMAIN genuine :
        stored[i].event_hash = genuine[j].event_hash

\* The strengthening: the ledger the service appended always verifies, and
\* what is stored has no digest it does not have.
LedgerInv == TypeOK /\ VerifyAuditChain(genuine) /\ NoForgedHash

\* Whatever single edit is made, each digest was in the ledger before.
LEMMA EditCopiesHashes ==
    ASSUME TypeOK, NEW i \in DOMAIN stored,
           EditField(i) \/ Remove(i) \/ Exchange(i)
    PROVE  \A m \in DOMAIN stored' : \E k \in DOMAIN stored :
                stored'[m].event_hash = stored[k].event_hash
<1>1. /\ stored \in Seq(Event(Payloads)) /\ Len(stored) \in Nat
      /\ DOMAIN stored = 1 .. Len(stored)
  BY DEF TypeOK
<1>2. \A k \in DOMAIN stored : stored[k] \in Event(Payloads)
  BY <1>1
<1>3. CASE \E p \in Payloads : stored' = [stored EXCEPT ![i].payload = p]
  BY <1>2, <1>3 DEF Event
<1>4. CASE \E t \in AuditEventType : stored' = [stored EXCEPT ![i].type = t]
  BY <1>2, <1>4 DEF Event
<1>5. CASE \E n \in 1 .. MaxEvents : stored' = [stored EXCEPT ![i].sequence = n]
  BY <1>2, <1>5 DEF Event
<1>6. CASE \E j \in DOMAIN stored :
            stored' = [stored EXCEPT ![i].previous_hash = stored[j].event_hash]
  BY <1>2, <1>6 DEF Event
<1>7. CASE \E j \in DOMAIN stored :
            stored' = [stored EXCEPT ![i].event_hash = stored[j].event_hash]
  BY <1>2, <1>7 DEF Event
<1>8. CASE Remove(i)
  <2> DEFINE head == SubSeq(stored, 1, i - 1)
             tail == SubSeq(stored, i + 1, Len(stored))
  <2>1. /\ head \in Seq(Event(Payloads)) /\ Len(head) = i - 1
        /\ \A m \in 1 .. i - 1 : head[m] = stored[m]
    BY <1>1, SubSeqProperties
  <2>2. /\ tail \in Seq(Event(Payloads)) /\ Len(tail) = Len(stored) - i
        /\ \A m \in 1 .. Len(stored) - i : tail[m] = stored[i + m]
    BY <1>1, SubSeqProperties
  <2>3. stored' = head \o tail
    BY <1>8 DEF Remove
  <2> HIDE DEF head, tail
  <2>4. /\ head \o tail \in Seq(Event(Payloads))
        /\ Len(head \o tail) = Len(head) + Len(tail)
        /\ \A m \in 1 .. Len(head) + Len(tail) :
            (head \o tail)[m] = IF m <= Len(head) THEN head[m] ELSE tail[m - Len(head)]
    BY <2>1, <2>2, ConcatProperties
  <2>5. ASSUME NEW m \in DOMAIN stored'
        PROVE  \E k \in DOMAIN stored : stored'[m] = stored[k]
    <3>1. m \in 1 .. Len(head) + Len(tail)
      BY <2>3, <2>4
    <3>2. CASE m <= Len(head)
      <4>1. m \in 1 .. i - 1 /\ m \in DOMAIN stored
        BY <1>1, <2>1, <3>1, <3>2
      <4>2. QED
        BY <2>1, <2>3, <2>4, <3>1, <3>2, <4>1
    <3>3. CASE ~(m <= Len(head))
      <4>1. /\ m - Len(head) \in 1 .. Len(stored) - i
            /\ i + (m - Len(head)) \in DOMAIN stored
        BY SMTT(30), <1>1, <2>1, <2>2, <3>1, <3>3
      <4>2. stored'[m] = stored[i + (m - Len(head))]
        BY <2>2, <2>3, <2>4, <3>1, <3>3, <4>1
      <4>3. QED
        BY <4>1, <4>2
    <3>4. QED
      BY <3>2, <3>3
  <2>6. QED
    BY <2>5
<1>9. CASE Exchange(i)
  BY <1>2, <1>9 DEF Exchange
<1>10. QED
  BY <1>3, <1>4, <1>5, <1>6, <1>7, <1>8, <1>9 DEF EditField

\* Appending one entry is appending a sequence of one.
LEMMA AppendEntryStep ==
    ASSUME LedgerInv, NEW entry \in Entry(Payloads), AppendEntry(entry)
    PROVE  LedgerInv'
<1>1. genuine \in Seq(Event(Payloads)) /\ <<entry>> \in Seq(Entry(Payloads))
  BY DEF LedgerInv, TypeOK
<1>2. genuine' = AppendEvents(genuine, <<entry>>) /\ stored' = genuine'
      /\ alterations' = alterations
  BY DEF AppendEntry, AppendEvent
<1>3. genuine' \in Seq(Event(Payloads))
  BY <1>1, <1>2, AppendEventsType
<1>4. VerifyAuditChain(genuine)'
  <2>1. VerifyAuditChain(AppendEvents(genuine, <<entry>>))
    BY <1>1, AppendKeepsVerified DEF LedgerInv
  <2>2. QED
    BY <1>2, <2>1 DEF VerifyAuditChain
<1>5. TypeOK' /\ NoForgedHash'
  BY <1>2, <1>3 DEF LedgerInv, TypeOK, NoForgedHash
<1>6. QED
  BY <1>4, <1>5 DEF LedgerInv

\* An edit leaves the genuine ledger alone and events in the stored one.
LEMMA AlterStep ==
    ASSUME LedgerInv, Alter, MaxEvents \in Nat
    PROVE  LedgerInv'
<1>1. stored \in Seq(Event(Payloads)) /\ TypeOK
  BY DEF LedgerInv, TypeOK
<1>2. PICK i \in DOMAIN stored : EditField(i) \/ Remove(i) \/ Exchange(i)
  BY DEF Alter
<1>3. /\ genuine' = genuine /\ alterations' = alterations + 1
      /\ genuine \in Seq(Event(Payloads)) /\ alterations \in Nat
  BY DEF Alter, LedgerInv, TypeOK
<1>4. stored' \in Seq(Event(Payloads))
  <2>1. CASE EditField(i)
    BY <1>1, <2>1, EditFieldType
  <2>2. CASE Remove(i)
    <3>1. /\ SubSeq(stored, 1, i - 1) \in Seq(Event(Payloads))
          /\ SubSeq(stored, i + 1, Len(stored)) \in Seq(Event(Payloads))
      BY <1>1
    <3>2. QED
      BY <2>2, <3>1, ConcatProperties DEF Remove
  <2>3. CASE Exchange(i)
    <3>1. PICK j \in DOMAIN stored :
              stored' = [stored EXCEPT ![i] = stored[j], ![j] = stored[i]]
      BY <2>3 DEF Exchange
    <3>2. stored[i] \in Event(Payloads) /\ stored[j] \in Event(Payloads)
      BY <1>1
    <3>3. QED
      BY <1>1, <3>1, <3>2
  <2>4. QED
    BY <1>2, <2>1, <2>2, <2>3
<1>5. TypeOK' /\ VerifyAuditChain(genuine')
  BY <1>3, <1>4 DEF LedgerInv, TypeOK
<1>6. NoForgedHash'
  <2>1. ASSUME NEW m \in DOMAIN stored'
        PROVE  \E j \in DOMAIN genuine : stored'[m].event_hash = genuine[j].event_hash
    <3>1. PICK k \in DOMAIN stored : stored'[m].event_hash = stored[k].event_hash
      BY <1>1, <1>2, EditCopiesHashes
    <3>2. QED
      BY <3>1 DEF LedgerInv, NoForgedHash
  <2>2. QED
    BY <1>3, <2>1 DEF NoForgedHash
<1>7. QED
  BY <1>3, <1>5, <1>6 DEF LedgerInv, VerifyAuditChain

\* The genuine ledger verifies whatever is done to the stored one, and both
\* keep their shape.
THEOREM LedgerInvariance == Spec => []LedgerInv
<1>1. Init => LedgerInv
  <2>1. SUFFICES ASSUME Init PROVE LedgerInv
    OBVIOUS
  <2>2. /\ <<>> \in Seq(Entry(Payloads)) /\ <<>> \in Seq(Event(Payloads))
        /\ Entries(<<>>) = <<>>
    BY DEF Entries
  <2>3. Len(AppendEvents(<<>>, <<>>)) = 0
    BY <2>2, ReplayIsChain
  <2>4. AppendEvents(<<>>, <<>>) \in Seq(Event(Payloads))
    BY <2>2, AppendEventsType
  <2>5. VerifyAuditChain(<<>>)
    BY <2>2, <2>3, <2>4 DEF VerifyAuditChain
  <2>6. TypeOK
    BY <2>1, <2>2 DEF Init, TypeOK
  <2>7. NoForgedHash
    BY <2>1 DEF Init, NoForgedHash
  <2>8. QED
    BY <2>1, <2>5, <2>6, <2>7 DEF Init, LedgerInv
<1>2. LedgerInv /\ [Next]_vars => LedgerInv'
  <2>1. SUFFICES ASSUME LedgerInv, [Next]_vars PROVE LedgerInv'
    OBVIOUS
  <2>2. CASE Next
    BY <2>1, <2>2, AppendEntryStep, AlterStep, LedgerAssumption DEF Next
  <2>3. CASE UNCHANGED vars
    BY <2>1, <2>3 DEF vars, LedgerInv, TypeOK, VerifyAuditChain, NoForgedHash
  <2>4. QED
    BY <2>1, <2>2, <2>3
<1>3. QED
  BY <1>1, <1>2, PTL DEF Spec

\* Two ledgers that verify and end in the hash the export shows are the same
\* ledger, whatever was edited (audit.py, api.py export_run).
THEOREM HeadHashIsALedgersName == Spec => []HeadHashNamesLedger
<1>1. LedgerInv => HeadHashNamesLedger
  BY HeadHashDeterminesLedger DEF LedgerInv, TypeOK, HeadHashNamesLedger
<1>2. QED
  BY <1>1, LedgerInvariance, PTL

\* What verifies is the genuine ledger or a beginning of it, after any number
\* of edits that compute no digest (verify_audit_chain, docs/DEMO.md:51).
THEOREM VerifiedLedgersAreGenuine == Spec => []VerifiedIsGenuine
<1>1. ASSUME LedgerInv
      PROVE  VerifiedIsGenuine
  <2>1. /\ stored \in Seq(Event(Payloads)) /\ genuine \in Seq(Event(Payloads))
        /\ Len(stored) \in Nat /\ Len(genuine) \in Nat
        /\ DOMAIN stored = 1 .. Len(stored) /\ DOMAIN genuine = 1 .. Len(genuine)
    BY <1>1 DEF LedgerInv, TypeOK
  <2>2. ASSUME NEW n \in 0 .. Len(genuine)
        PROVE  /\ SubSeq(genuine, 1, n) \in Seq(Event(Payloads))
               /\ Len(SubSeq(genuine, 1, n)) = n
               /\ \A i \in 1 .. n : SubSeq(genuine, 1, n)[i] = genuine[i]
               /\ VerifyAuditChain(SubSeq(genuine, 1, n))
    BY <1>1, <2>1, SubSeqProperties, BeginningVerifies DEF LedgerInv
  <2>3. ASSUME VerifyAuditChain(stored)
        PROVE  Len(stored) <= Len(genuine) /\ stored = SubSeq(genuine, 1, Len(stored))
    <3>1. CASE stored = <<>>
      <4>1. Len(stored) = 0 /\ Len(stored) <= Len(genuine)
        BY <2>1, <3>1
      <4>2. SubSeq(genuine, 1, 0) = <<>>
        <5>1. 0 \in 0 .. Len(genuine)
          BY <2>1
        <5>2. QED
          BY <2>2, <5>1
      <4>3. QED
        BY <3>1, <4>1, <4>2
    <3>2. CASE stored # <<>>
      <4>1. Len(stored) \in DOMAIN stored /\ HeadHash(stored) = stored[Len(stored)].event_hash
        BY <2>1, <3>2 DEF HeadHash
      <4>2. PICK j \in DOMAIN genuine :
                stored[Len(stored)].event_hash = genuine[j].event_hash
        BY <1>1, <4>1 DEF LedgerInv, NoForgedHash
      <4> DEFINE part == SubSeq(genuine, 1, j)
      <4>3. j \in 0 .. Len(genuine) /\ j \in 1 .. j /\ j # 0 /\ j <= Len(genuine)
        BY <2>1
      <4>4. /\ part \in Seq(Event(Payloads)) /\ Len(part) = j
            /\ part[j] = genuine[j] /\ VerifyAuditChain(part)
        BY <2>2, <4>3
      <4> HIDE DEF part
      <4>5. part # <<>>
        BY <4>3, <4>4
      <4>6. HeadHash(part) = HeadHash(stored)
        BY <4>1, <4>2, <4>4, <4>5 DEF HeadHash
      <4>7. stored = part
        BY <2>1, <2>3, <4>4, <4>6, HeadHashDeterminesLedger
      <4>8. QED
        BY <4>3, <4>4, <4>7 DEF part
    <3>3. QED
      BY <3>1, <3>2
  <2>4. ASSUME Len(stored) <= Len(genuine), stored = SubSeq(genuine, 1, Len(stored))
        PROVE  VerifyAuditChain(stored)
    <3>1. Len(stored) \in 0 .. Len(genuine)
      BY <2>1, <2>4
    <3>2. VerifyAuditChain(SubSeq(genuine, 1, Len(stored)))
      BY <2>2, <3>1
    <3>3. QED
      BY <2>4, <3>2
  <2>5. QED
    BY <2>3, <2>4 DEF VerifiedIsGenuine
<1>2. QED
  BY <1>1, LedgerInvariance, PTL
=============================================================================
