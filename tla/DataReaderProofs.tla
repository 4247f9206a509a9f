-------------------------- MODULE DataReaderProofs --------------------------
(***************************************************************************)
(* What is in the data section decodes to what was pushed, and takes no    *)
(* more room than it does written out in full: for every set of values,    *)
(* however deeply nested, and every choice of the pointer classes.         *)
(***************************************************************************)
EXTENDS DataReader, SequenceTheorems, InductionLemmas

Token == [at : Nat, name : {v.name : v \in Values} \cup {"pointer"}, count : Nat,
          to : Nat \cup {NoTarget}, len : Nat]

Frame == [value : Values, offset : Nat, next : Nat \ {0}]

Typed ==
    /\ section \in Seq(Token)
    /\ size \in Nat
    /\ dedup \in SUBSET [value : Values, offset : Nat, len : Int]
    /\ stack \in Seq(Frame)
    /\ returned \in Seq([value : Values, offset : Nat, fresh : BOOLEAN])

(* The header of every value that is being encoded has been written. *)
FramesWritten ==
    \A i \in DOMAIN stack : HeaderOf(stack[i].value, stack[i].offset)

(***************************************************************************)
(* Neither conjunct of interest is inductive by itself: a new entry is     *)
(* that of the innermost frame, so the frames must stand at headers, and a *)
(* new pointer leads where an entry does.                                  *)
(***************************************************************************)
IInv == Typed /\ TypeOK /\ FramesWritten /\ PointersAim

LEMMA InitIInv == Init => IInv
<1> SUFFICES ASSUME Init PROVE IInv
  OBVIOUS
<1>1. Typed
  BY DEF Init, Typed
<1>2. TypeOK
  BY DataSectionAssumption DEF Init, TypeOK, EndOf
<1>3. FramesWritten /\ PointersAim
  BY DEF Init, FramesWritten, PointersAim
<1> QED
  BY <1>1, <1>2, <1>3 DEF IInv

-----------------------------------------------------------------------------
(* What is written stays, and the new token is the last one. *)
LEMMA Written ==
    ASSUME Typed, NEW token \in Token, Write(token)
    PROVE  /\ section' \in Seq(Token) /\ size' \in Nat
           /\ Len(section) \in Nat
           /\ DOMAIN section = 1 .. Len(section)
           /\ DOMAIN section' = 1 .. Len(section) + 1
           /\ Len(section') = Len(section) + 1
           /\ \A k \in 1 .. Len(section) : section'[k] = section[k]
           /\ section'[Len(section) + 1] = token
<1>1. section \in Seq(Token) /\ size \in Nat /\ token.len \in Nat
  BY DEF Typed, Token
<1>2. section' = Append(section, token) /\ size' = size + token.len
  BY DEF Write
<1> QED
  BY <1>1, <1>2

LEMMA HeadersStay ==
    ASSUME Typed, NEW token \in Token, Write(token), NEW v, NEW offset, HeaderOf(v, offset)
    PROVE  HeaderOf(v, offset)'
<1>1. PICK k \in DOMAIN section : /\ section[k].at = offset /\ section[k].to = NoTarget
                                  /\ section[k].name = v.name /\ section[k].len = v.head
  BY DEF HeaderOf
<1>2. k \in DOMAIN section' /\ section'[k] = section[k]
  BY <1>1, Written
<1> QED
  BY <1>1, <1>2 DEF HeaderOf

(* Writing at the end of the section keeps the tokens in a row. *)
LEMMA TilesStay ==
    ASSUME Typed, TypeOK, NEW token \in Token, Write(token), token.at = size
    PROVE  /\ \A k \in DOMAIN section' : section'[k].at = EndOf(k - 1)'
           /\ size' = EndOf(Len(section))'
<1>1. /\ section \in Seq(Token) /\ size \in Nat
      /\ size' = size + token.len
  BY DEF Typed, Write
<1>2. \A k \in 0 .. Len(section) : EndOf(k)' = EndOf(k)
  BY Written DEF EndOf
<1>3. ASSUME NEW k \in DOMAIN section' PROVE section'[k].at = EndOf(k - 1)'
  <2>1. CASE k \in 1 .. Len(section)
    <3>1. section'[k] = section[k] /\ section[k].at = EndOf(k - 1)
      BY <2>1, Written DEF TypeOK
    <3>2. k - 1 \in 0 .. Len(section)
      BY <2>1, Written
    <3> QED
      BY <3>1, <3>2, <1>2
  <2>2. CASE k = Len(section) + 1
    <3>1. section'[k].at = size /\ k - 1 = Len(section)
      BY <2>2, Written
    <3>2. Len(section) \in 0 .. Len(section)
      BY Written
    <3> QED
      BY <3>1, <3>2, <1>2 DEF TypeOK
  <2> QED
    BY <1>3, <2>1, <2>2, Written
<1>4. size' = EndOf(Len(section))'
  <2>1. Len(section') = Len(section) + 1 /\ Len(section) + 1 # 0
    BY Written
  <2>2. section'[Len(section')] = token
    BY <2>1, Written
  <2> QED
    BY <1>1, <2>1, <2>2 DEF EndOf
<1> QED
  BY <1>3, <1>4

(* The header of a value, written by Open. *)
LEMMA OpenStep ==
    ASSUME IInv, NEW v \in Values, NEW below \in Seq(Frame), Open(v, below),
           \A i \in DOMAIN below : HeaderOf(below[i].value, below[i].offset),
           UNCHANGED <<dedup, noPointers, returned>>
    PROVE  IInv'
<1>0. Typed /\ TypeOK /\ FramesWritten /\ PointersAim
  BY DEF IInv
<1>1. PICK o \in Nat : o = size
  BY <1>0 DEF Typed
<1> DEFINE token == [at |-> o, name |-> v.name, count |-> Len(v.items),
                     to |-> NoTarget, len |-> v.head]
<1> DEFINE frame == [value |-> v, offset |-> o, next |-> 1]
<1>2. token \in Token /\ frame \in Frame
  <2>1. v.head \in Nat /\ v.items \in Seq(Values)
    BY DataSectionAssumption
  <2>2. Len(v.items) \in Nat
    BY <2>1
  <2> QED
    BY <2>1, <2>2 DEF Token, Frame
<1>3. Write(token) /\ stack' = Append(below, frame)
  BY <1>1 DEF Open
<1>4. /\ token.at = o /\ token.to = NoTarget /\ token.name = v.name /\ token.len = v.head
      /\ frame.value = v /\ frame.offset = o
  OBVIOUS
<1> HIDE DEF token, frame
<1>5. Typed'
  BY <1>0, <1>2, <1>3, Written DEF Typed
<1>6. TypeOK'
  <2>1. /\ \A k \in DOMAIN section' : section'[k].at = EndOf(k - 1)'
        /\ size' = EndOf(Len(section))'
    BY <1>0, <1>1, <1>2, <1>3, <1>4, TilesStay
  <2>2. \A e \in dedup' : HeaderOf(e.value, e.offset)'
    BY <1>0, <1>2, <1>3, HeadersStay DEF TypeOK
  <2>3. \A i \in DOMAIN returned' : HeaderOf(returned[i].value, returned[i].offset)'
    BY <1>0, <1>2, <1>3, HeadersStay DEF TypeOK
  <2> QED
    BY <1>0, <2>1, <2>2, <2>3 DEF TypeOK
<1>7. FramesWritten'
  <2>1. HeaderOf(v, o)'
    <3>1. Len(section) + 1 \in DOMAIN section' /\ section'[Len(section) + 1] = token
      BY <1>0, <1>2, <1>3, Written
    <3> QED
      BY <3>1, <1>4 DEF HeaderOf
  <2>2. ASSUME NEW i \in DOMAIN stack'
        PROVE  HeaderOf(stack[i].value, stack[i].offset)'
    <3>1. CASE i = Len(below) + 1
      <4>1. stack'[i] = frame
        BY <1>2, <1>3, <3>1
      <4> QED
        BY <4>1, <1>4, <2>1
    <3>2. CASE i # Len(below) + 1
      <4>1. i \in DOMAIN below /\ stack'[i] = below[i]
        BY <1>2, <1>3, <3>2
      <4> QED
        BY <4>1, <1>0, <1>2, <1>3, HeadersStay
    <3> QED
      BY <3>1, <3>2
  <2> QED
    BY <2>2 DEF FramesWritten
<1>8. PointersAim'
  <2>1. \A k \in DOMAIN section : section'[k] = section[k]
    BY <1>0, <1>2, <1>3, Written
  <2>2. ASSUME NEW p \in DOMAIN section', section'[p].to # NoTarget
        PROVE  \E t \in 1 .. p - 1 : section'[t].at = section'[p].to /\ section'[t].to = NoTarget
    <3>1. p \in DOMAIN section
      BY <1>0, <1>2, <1>3, <1>4, <2>2, Written
    <3>2. section[p].to # NoTarget /\ section'[p] = section[p]
      BY <3>1, <2>1, <2>2
    <3>3. PICK t \in 1 .. p - 1 : section[t].at = section[p].to /\ section[t].to = NoTarget
      BY <3>1, <3>2, <1>0 DEF PointersAim
    <3>4. t \in DOMAIN section
      BY <3>1, <1>0, <1>2, <1>3, Written
    <3> QED
      BY <3>2, <3>3, <3>4, <2>1
  <2> QED
    BY <2>2 DEF PointersAim
<1> QED
  BY <1>5, <1>6, <1>7, <1>8 DEF IInv

-----------------------------------------------------------------------------
LEMMA PushNewStep == ASSUME IInv, NEW v \in Pushed, PushNew(v) PROVE IInv'
<1>1. v \in Values /\ << >> \in Seq(Frame)
  BY DataSectionAssumption
<1>2. Open(v, << >>) /\ UNCHANGED <<dedup, noPointers, returned>>
  BY DEF PushNew
<1>3. \A i \in DOMAIN << >> : HeaderOf(<< >>[i].value, << >>[i].offset)
  OBVIOUS
<1> QED
  BY <1>1, <1>2, <1>3, OpenStep

(* The frame on top, and the stack when it has gone on to its next item. *)
LEMMA TopFrame ==
    ASSUME Typed, stack # << >>
    PROVE  /\ Len(stack) \in Nat \ {0} /\ Top \in Frame
           /\ Advanced \in Seq(Frame) /\ Below \in Seq(Frame)
           /\ DOMAIN Advanced = DOMAIN stack
           /\ \A i \in DOMAIN stack : /\ Advanced[i].value = stack[i].value
                                      /\ Advanced[i].offset = stack[i].offset
           /\ \A i \in DOMAIN Below : i \in DOMAIN stack /\ Below[i] = stack[i]
<1>1. stack \in Seq(Frame) /\ Len(stack) \in Nat \ {0} /\ Len(stack) \in DOMAIN stack
  BY DEF Typed
<1>2. Top \in Frame
  BY <1>1 DEF Top
<1>3. PICK g \in Frame : /\ g = [Top EXCEPT !.next = @ + 1]
                         /\ g.value = Top.value /\ g.offset = Top.offset
  <2>1. PICK f \in Frame : f = Top
    BY <1>2
  <2>2. /\ [f EXCEPT !.next = @ + 1] \in Frame
        /\ [f EXCEPT !.next = @ + 1].value = f.value
        /\ [f EXCEPT !.next = @ + 1].offset = f.offset
    BY DEF Frame
  <2> QED
    BY <2>1, <2>2
<1>4. Advanced = [stack EXCEPT ![Len(stack)] = g]
  BY <1>3 DEF Advanced, Top
<1>5. /\ Advanced \in Seq(Frame) /\ DOMAIN Advanced = DOMAIN stack
      /\ \A i \in DOMAIN stack : Advanced[i] = IF i = Len(stack) THEN g ELSE stack[i]
  BY <1>1, <1>4, ExceptSeq
<1>6. Below \in Seq(Frame) /\ \A i \in DOMAIN Below : i \in DOMAIN stack /\ Below[i] = stack[i]
  BY <1>1 DEF Below
<1> QED
  BY <1>1, <1>2, <1>3, <1>5, <1>6 DEF Top

-----------------------------------------------------------------------------
LEMMA ItemIsValue == ASSUME Typed, HasItem PROVE Item \in Values
<1>1. Top \in Frame /\ Top.next <= Len(Top.value.items)
  BY TopFrame DEF HasItem
<1>2. Top.value \in Values /\ Top.next \in Nat \ {0}
  BY <1>1 DEF Frame
<1>3. Top.value.items \in Seq(Values)
  BY <1>2, DataSectionAssumption
<1>4. Top.next \in 1 .. Len(Top.value.items)
  BY <1>1, <1>2, <1>3
<1> QED
  BY <1>3, <1>4, ElementOfSeq DEF Item

(* An entry is found for a value that is known. *)
LEMMA EntryFound ==
    ASSUME Typed, TypeOK, NEW v \in Values, Known(v)
    PROVE  /\ Entry(v) \in dedup /\ Entry(v).value = v /\ Entry(v).offset \in Nat
           /\ HeaderOf(v, Entry(v).offset)
<1>1. Entry(v) \in dedup /\ Entry(v).value = v
  BY DEF Known, Entry
<1>2. Entry(v) \in [value : Values, offset : Nat, len : Int]
  BY <1>1 DEF Typed
<1>3. HeaderOf(Entry(v).value, Entry(v).offset)
  BY <1>1 DEF TypeOK
<1> QED
  BY <1>1, <1>2, <1>3

LEMMA EmitInlineStep == ASSUME IInv, EmitInline PROVE IInv'
<1>1. Typed /\ TypeOK /\ FramesWritten /\ stack # << >> /\ HasItem
  BY DEF IInv, EmitInline, HasItem
<1>2. Item \in Values /\ Advanced \in Seq(Frame)
  BY <1>1, ItemIsValue, TopFrame
<1>3. Open(Item, Advanced) /\ UNCHANGED <<dedup, noPointers, returned>>
  BY DEF EmitInline
<1>4. \A i \in DOMAIN Advanced : HeaderOf(Advanced[i].value, Advanced[i].offset)
  <2>1. ASSUME NEW i \in DOMAIN Advanced
        PROVE  HeaderOf(Advanced[i].value, Advanced[i].offset)
    <3>1. /\ i \in DOMAIN stack
          /\ Advanced[i].value = stack[i].value /\ Advanced[i].offset = stack[i].offset
      BY <1>1, TopFrame
    <3> QED
      BY <3>1, <1>1 DEF FramesWritten
  <2> QED
    BY <2>1
<1> QED
  BY <1>2, <1>3, <1>4, OpenStep

(* One more result. *)
LEMMA ReturnsMore ==
    ASSUME Typed, TypeOK, UNCHANGED section,
           NEW r \in [value : Values, offset : Nat, fresh : BOOLEAN],
           returned' = Append(returned, r), HeaderOf(r.value, r.offset)
    PROVE  /\ returned' \in Seq([value : Values, offset : Nat, fresh : BOOLEAN])
           /\ \A i \in DOMAIN returned' : HeaderOf(returned[i].value, returned[i].offset)'
<1>1. returned \in Seq([value : Values, offset : Nat, fresh : BOOLEAN])
  BY DEF Typed
<1>2. \A i \in DOMAIN returned' :
          \/ returned'[i] = r
          \/ i \in DOMAIN returned /\ returned'[i] = returned[i]
  BY <1>1
<1>3. returned' \in Seq([value : Values, offset : Nat, fresh : BOOLEAN])
  BY <1>1
<1>4. ASSUME NEW i \in DOMAIN returned'
      PROVE  HeaderOf(returned[i].value, returned[i].offset)'
  <2>1. HeaderOf(returned'[i].value, returned'[i].offset)
    BY <1>2, <1>4 DEF TypeOK
  <2> QED
    BY <2>1 DEF HeaderOf
<1> QED
  BY <1>3, <1>4

LEMMA PushKnownStep == ASSUME IInv, NEW v \in Pushed, PushKnown(v) PROVE IInv'
<1>1. Typed /\ TypeOK /\ FramesWritten /\ PointersAim /\ v \in Values
  BY DataSectionAssumption DEF IInv
<1>2. Known(v) /\ CanPush /\ UNCHANGED <<section, size, dedup, noPointers, stack>>
  BY DEF PushKnown
<1>3. Entry(v).offset \in Nat /\ HeaderOf(v, Entry(v).offset)
  BY <1>1, <1>2, EntryFound
<1>4. /\ returned' \in Seq([value : Values, offset : Nat, fresh : BOOLEAN])
      /\ \A i \in DOMAIN returned' : HeaderOf(returned[i].value, returned[i].offset)'
  <2>1. PICK r \in [value : Values, offset : Nat, fresh : BOOLEAN] :
            r.value = v /\ r.offset = Entry(v).offset /\ returned' = Append(returned, r)
    BY <1>1, <1>3 DEF PushKnown
  <2> QED
    BY <1>1, <1>2, <1>3, <2>1, ReturnsMore
<1>5. Typed'
  BY <1>1, <1>2, <1>4 DEF Typed
<1>6. TypeOK'
  BY <1>1, <1>2, <1>4 DEF TypeOK, EndOf, HeaderOf
<1>7. FramesWritten' /\ PointersAim'
  BY <1>1, <1>2 DEF FramesWritten, HeaderOf, PointersAim
<1> QED
  BY <1>5, <1>6, <1>7 DEF IInv

(* The pointer leads where the entry does, and that is in front of it. *)
LEMMA EmitPointerStep == ASSUME IInv, EmitPointer PROVE IInv'
<1>1. /\ Typed /\ TypeOK /\ FramesWritten /\ PointersAim
      /\ stack # << >> /\ HasItem /\ Known(Item)
  BY DEF IInv, EmitPointer, HasItem, PointerWins
<1>2. Item \in Values
  BY <1>1, ItemIsValue
<1>3. Entry(Item).offset \in Nat /\ HeaderOf(Item, Entry(Item).offset)
  BY <1>1, <1>2, EntryFound
<1>4. PICK token \in Token : /\ Write(token) /\ token.at = size /\ token.to = Entry(Item).offset
  <2>1. PICK o \in Nat, t \in Nat, n \in Nat :
            o = size /\ t = Entry(Item).offset /\ n = PointerBytes(Entry(Item).offset)
    BY <1>1, <1>3 DEF Typed, PointerBytes
  <2>2. [at |-> o, name |-> "pointer", count |-> 0, to |-> t, len |-> n] \in Token
    BY DEF Token
  <2>3. Write([at |-> o, name |-> "pointer", count |-> 0, to |-> t, len |-> n])
    BY <2>1 DEF EmitPointer
  <2> QED
    BY <2>1, <2>2, <2>3
<1>5. stack' = Advanced /\ UNCHANGED <<dedup, noPointers, returned>>
  BY DEF EmitPointer
<1>6. Typed'
  BY <1>1, <1>4, <1>5, Written, TopFrame DEF Typed
<1>7. TypeOK'
  <2>1. /\ \A k \in DOMAIN section' : section'[k].at = EndOf(k - 1)'
        /\ size' = EndOf(Len(section))'
    BY <1>1, <1>4, TilesStay
  <2>2. \A e \in dedup' : HeaderOf(e.value, e.offset)'
    BY <1>1, <1>4, <1>5, HeadersStay DEF TypeOK
  <2>3. \A i \in DOMAIN returned' : HeaderOf(returned[i].value, returned[i].offset)'
    BY <1>1, <1>4, <1>5, HeadersStay DEF TypeOK
  <2> QED
    BY <1>1, <1>5, <2>1, <2>2, <2>3 DEF TypeOK
<1>8. FramesWritten'
  <2>1. ASSUME NEW i \in DOMAIN stack'
        PROVE  HeaderOf(stack[i].value, stack[i].offset)'
    <3>1. /\ i \in DOMAIN stack
          /\ stack'[i].value = stack[i].value /\ stack'[i].offset = stack[i].offset
      BY <1>1, <1>5, TopFrame
    <3>2. HeaderOf(stack[i].value, stack[i].offset)
      BY <3>1, <1>1 DEF FramesWritten
    <3>3. PICK v \in {stack[i].value}, o \in {stack[i].offset} : HeaderOf(v, o)
      BY <3>2
    <3>4. HeaderOf(v, o)'
      BY <3>3, <1>1, <1>4, HeadersStay
    <3> QED
      BY <3>1, <3>3, <3>4
  <2> QED
    BY <2>1 DEF FramesWritten
<1>9. PointersAim'
  <2>1. /\ \A k \in 1 .. Len(section) : section'[k] = section[k]
        /\ DOMAIN section = 1 .. Len(section) /\ DOMAIN section' = 1 .. Len(section) + 1
        /\ section'[Len(section) + 1] = token /\ Len(section) \in Nat
    BY <1>1, <1>4, Written
  <2>2. ASSUME NEW p \in DOMAIN section', section'[p].to # NoTarget
        PROVE  \E t \in 1 .. p - 1 : section'[t].at = section'[p].to /\ section'[t].to = NoTarget
    <3>1. CASE p \in 1 .. Len(section)
      <4>1. PICK t \in 1 .. p - 1 : section[t].at = section[p].to /\ section[t].to = NoTarget
        BY <3>1, <2>1, <2>2, <1>1 DEF PointersAim
      <4>2. t \in 1 .. Len(section)
        BY <3>1, <4>1, <2>1
      <4> QED
        BY <3>1, <4>1, <4>2, <2>1
    <3>2. CASE p = Len(section) + 1
      <4>1. PICK t \in DOMAIN section : section[t].at = Entry(Item).offset /\ section[t].to = NoTarget
        BY <1>3 DEF HeaderOf
      <4>2. t \in 1 .. p - 1
        BY <3>2, <4>1, <2>1
      <4> QED
        BY <3>2, <4>1, <4>2, <2>1, <1>4
    <3> QED
      BY <2>1, <2>2, <3>1, <3>2
  <2> QED
    BY <2>2 DEF PointersAim
<1> QED
  BY <1>6, <1>7, <1>8, <1>9 DEF IInv

(* The new entry is that of the frame on top, whose header has been written. *)
LEMMA CloseStep == ASSUME IInv, Close PROVE IInv'
<1>1. Typed /\ TypeOK /\ FramesWritten /\ PointersAim /\ stack # << >>
  BY DEF IInv, Close
<1>2. /\ dedup' = Remember(Top) /\ stack' = Below
      /\ UNCHANGED <<section, size, noPointers>>
  BY DEF Close
<1>3. Top.value \in Values /\ Top.offset \in Nat /\ HeaderOf(Top.value, Top.offset)
  BY <1>1, TopFrame DEF Frame, FramesWritten, Top, Typed
<1>4. PICK e \in [value : Values, offset : Nat, len : Int] :
          /\ e.value = Top.value /\ e.offset = Top.offset
          /\ dedup' = IF Known(Top.value) THEN dedup ELSE dedup \cup {e}
  <2>1. size - Top.offset \in Int
    BY <1>1, <1>3 DEF Typed
  <2> QED
    BY <1>2, <1>3, <2>1 DEF Remember
<1>5. /\ returned' \in Seq([value : Values, offset : Nat, fresh : BOOLEAN])
      /\ \A i \in DOMAIN returned' : HeaderOf(returned[i].value, returned[i].offset)'
  <2>1. CASE returned' = returned
    BY <1>1, <1>2, <2>1 DEF Typed, TypeOK, HeaderOf
  <2>2. CASE returned' # returned
    <3>1. PICK r \in [value : Values, offset : Nat, fresh : BOOLEAN] :
              r.value = Top.value /\ r.offset = Top.offset /\ returned' = Append(returned, r)
      BY <1>3, <2>2 DEF Close
    <3> QED
      BY <1>1, <1>2, <1>3, <3>1, ReturnsMore
  <2> QED
    BY <2>1, <2>2
<1>6. Typed'
  BY <1>1, <1>2, <1>4, <1>5, TopFrame DEF Typed
<1>7. TypeOK'
  <2>1. \A f, g \in dedup' : f.value = g.value => f = g
    BY <1>1, <1>4 DEF TypeOK, Known
  <2>2. \A f \in dedup' : HeaderOf(f.value, f.offset)
    BY <1>1, <1>3, <1>4 DEF TypeOK
  <2> QED
    BY <1>1, <1>2, <1>5, <2>1, <2>2 DEF TypeOK, EndOf, HeaderOf
<1>8. FramesWritten' /\ PointersAim'
  <2>1. section' = section
    BY <1>2
  <2>2. FramesWritten'
    <3>1. \A i \in DOMAIN stack' : i \in DOMAIN stack /\ stack'[i] = stack[i]
      BY <1>1, <1>2, TopFrame
    <3> QED
      BY <1>1, <2>1, <3>1 DEF FramesWritten, HeaderOf
  <2>3. PointersAim'
    BY <1>1, <2>1 DEF PointersAim
  <2> QED
    BY <2>2, <2>3
<1> QED
  BY <1>6, <1>7, <1>8 DEF IInv

-----------------------------------------------------------------------------
LEMMA StepIInv == IInv /\ [Next]_vars => IInv'
<1> SUFFICES ASSUME IInv, [Next]_vars PROVE IInv'
  OBVIOUS
<1>1. CASE UNCHANGED vars
  BY <1>1 DEF vars, IInv, Typed, TypeOK, FramesWritten, PointersAim, EndOf, HeaderOf
<1>2. CASE \E v \in Pushed : PushKnown(v) \/ PushNew(v)
  BY <1>2, PushKnownStep, PushNewStep
<1>3. CASE EmitPointer
  BY <1>3, EmitPointerStep
<1>4. CASE EmitInline
  BY <1>4, EmitInlineStep
<1>5. CASE Close
  BY <1>5, CloseStep
<1> QED
  BY <1>1, <1>2, <1>3, <1>4, <1>5 DEF Next

LEMMA Invariance == Spec => []IInv
<1> QED
  BY InitIInv, StepIInv, PTL DEF Spec

(***************************************************************************)
(* What push returns and what the table keeps are offsets of headers of    *)
(* the very value, in a section without holes: writer.rs can put them into *)
(* tree records as they are.                                               *)
(***************************************************************************)
THEOREM ResultsLead == Spec => []TypeOK
<1>1. IInv => TypeOK
  BY DEF IInv
<1> QED
  BY <1>1, Invariance, PTL

(* No pointer leads to a pointer, or forward: write_pointer is given offsets of headers only. *)
THEOREM PointersLead == Spec => []PointersAim
<1>1. IInv => PointersAim
  BY DEF IInv
<1> QED
  BY <1>1, Invariance, PTL

-----------------------------------------------------------------------------
(***************************************************************************)
(* The length in a table entry is what every later emission of its value   *)
(* costs.  A copy is made only of a value whose entry is no longer than a  *)
(* pointer to it; the first emission of such a value holds no item that a  *)
(* pointer would have been shorter for, since the pointer to an item is no *)
(* shorter than the one to the value around it.  So each of its items cost *)
(* the first time what it costs ever after, its price.                     *)
(***************************************************************************)

(* The table d as an argument: Known, Entry and PointerWins, before and after a step. *)
In(d, v) == \E e \in d : e.value = v
Of(d, v) == CHOOSE e \in d : e.value = v

Wins(d, np, v) == ~np /\ In(d, v) /\ Of(d, v).len > PointerBytes(Of(d, v).offset)

(* What an item that is in the table costs. *)
Price(d, np, v) == IF Wins(d, np, v) THEN PointerBytes(Of(d, v).offset) ELSE Of(d, v).len

(* c runs up the price of v item by item: c[k] is what is spent in front of item k. *)
Priced(d, np, c, v, r) ==
    /\ c[1] = v.head
    /\ \A k \in 1 .. r - 1 : c[k + 1] = c[k] + Price(d, np, v.items[k])

Table(d) ==
    /\ d \in SUBSET [value : Values, offset : Nat, len : Int]
    /\ \A e, f \in d : e.value = f.value => e = f

(* The items of a value in the table are there; the values that get copied have their prices in C. *)
Book(C, d, np) ==
    /\ C \in [Values -> [Nat -> Int]]
    /\ \A e \in d : \A k \in 1 .. Len(e.value.items) : In(d, e.value.items[k])
    /\ \A e \in d : ~Wins(d, np, e.value) =>
           /\ Priced(d, np, C[e.value], e.value, Len(e.value.items) + 1)
           /\ C[e.value][Len(e.value.items) + 1] = e.len

(***************************************************************************)
(* The encoding of v, begun at o, has spent p in front of item r.  A copy  *)
(* has spent what the book says; a first emission the prices of the items  *)
(* so far, or so much already that a pointer to v will be shorter.         *)
(***************************************************************************)
Sound(C, d, np, v, o, r, p) ==
    /\ r \in 1 .. Len(v.items) + 1 /\ p \in Nat
    /\ \A k \in 1 .. r - 1 : In(d, v.items[k])
    /\ ~Wins(d, np, v)
    /\ In(d, v) => p = C[v][r]
    /\ ~In(d, v) => \/ \E c \in [Nat -> Int] : Priced(d, np, c, v, r) /\ c[r] = p
                    \/ ~np /\ p > PointerBytes(o)

-----------------------------------------------------------------------------
LEMMA Items == ASSUME NEW v \in Values
               PROVE  v.items \in Seq(Values) /\ Len(v.items) \in Nat /\ v.head \in Nat \ {0}
BY DataSectionAssumption

LEMMA OfIn ==
    ASSUME NEW d, Table(d), NEW v, In(d, v)
    PROVE  Of(d, v) \in d /\ Of(d, v).value = v /\ Of(d, v).offset \in Nat /\ Of(d, v).len \in Int
<1>1. Of(d, v) \in d /\ Of(d, v).value = v
  BY DEF In, Of
<1> QED
  BY <1>1 DEF Table

(* A pointer costs two bytes or more, and no less further on. *)
LEMMA PointersCost ==
    ASSUME NEW o \in Nat
    PROVE  /\ PointerBytes(o) \in Nat
           /\ \A q \in Nat : o <= q => PointerBytes(o) <= PointerBytes(q)
<1>1. ClassEnds[1] \in Nat /\ ClassEnds[2] \in Nat /\ ClassEnds[3] \in Nat
  BY DataSectionAssumption
<1> QED
  BY SMT, <1>1, DataSectionAssumption DEF PointerBytes

(* The price of what is in the table stays as the table grows. *)
LEMMA PriceStays ==
    ASSUME NEW d, NEW d2, Table(d), Table(d2), d \subseteq d2, NEW np, NEW v, In(d, v)
    PROVE  /\ In(d2, v) /\ Of(d2, v) = Of(d, v)
           /\ Wins(d2, np, v) = Wins(d, np, v) /\ Price(d2, np, v) = Price(d, np, v)
<1>1. In(d2, v)
  BY DEF In
<1>2. /\ Of(d, v) \in d2 /\ Of(d, v).value = v
      /\ Of(d2, v) \in d2 /\ Of(d2, v).value = v
  BY <1>1, OfIn
<1>3. Of(d2, v) = Of(d, v)
  BY <1>2 DEF Table
<1> QED
  BY <1>1, <1>3 DEF Wins, Price

LEMMA PricedStays ==
    ASSUME NEW d, NEW d2, Table(d), Table(d2), d \subseteq d2, NEW np, NEW c,
           NEW v, NEW r, \A k \in 1 .. r - 1 : In(d, v.items[k]), Priced(d, np, c, v, r)
    PROVE  Priced(d2, np, c, v, r)
<1>1. \A k \in 1 .. r - 1 : Price(d2, np, v.items[k]) = Price(d, np, v.items[k])
  BY PriceStays
<1> QED
  BY <1>1 DEF Priced

LEMMA PriceIsNumber ==
    ASSUME NEW d, Table(d), NEW np, NEW v, In(d, v)
    PROVE  Price(d, np, v) \in Int
<1>1. Of(d, v).offset \in Nat /\ Of(d, v).len \in Int
  BY OfIn
<1>2. PointerBytes(Of(d, v).offset) \in Nat
  BY <1>1, PointersCost
<1> QED
  BY <1>1, <1>2 DEF Price

-----------------------------------------------------------------------------
(* An encoding is sound when its header has been written. *)
LEMMA SoundOpen ==
    ASSUME NEW d, Table(d), NEW C, NEW np, Book(C, d, np),
           NEW v \in Values, NEW o, ~Wins(d, np, v)
    PROVE  Sound(C, d, np, v, o, 1, v.head)
<1>1. v.items \in Seq(Values) /\ Len(v.items) \in Nat /\ v.head \in Nat \ {0}
  BY Items
<1>2. 1 \in 1 .. Len(v.items) + 1 /\ v.head \in Nat /\ 1 .. 1 - 1 = {}
  BY SMT, <1>1
<1>3. ASSUME In(d, v) PROVE v.head = C[v][1]
  <2>1. Of(d, v) \in d /\ Of(d, v).value = v
    BY <1>3, OfIn
  <2> QED
    BY <2>1 DEF Book, Priced
<1>4. \E c \in [Nat -> Int] : Priced(d, np, c, v, 1) /\ c[1] = v.head
  <2>1. [k \in Nat |-> v.head] \in [Nat -> Int] /\ [k \in Nat |-> v.head][1] = v.head
    BY <1>1
  <2>2. Priced(d, np, [k \in Nat |-> v.head], v, 1)
    BY <1>2, <2>1 DEF Priced
  <2> QED
    BY <2>1, <2>2
<1> QED
  BY <1>2, <1>3, <1>4 DEF Sound

(* It stays so while the table learns of other values. *)
LEMMA SoundStays ==
    ASSUME NEW d, NEW d2, Table(d), Table(d2), d \subseteq d2, NEW C, NEW C2, NEW np,
           NEW v, NEW o, NEW r, NEW p, Sound(C, d, np, v, o, r, p),
           In(d2, v) => In(d, v), In(d, v) => C2[v] = C[v]
    PROVE  Sound(C2, d2, np, v, o, r, p)
<1>1. \A k \in 1 .. r - 1 : In(d2, v.items[k])
  BY PriceStays DEF Sound
<1>2. ~Wins(d2, np, v)
  <2>1. CASE In(d, v)
    BY <2>1, PriceStays DEF Sound
  <2>2. CASE ~In(d, v)
    BY <2>2 DEF Wins
  <2> QED
    BY <2>1, <2>2
<1>3. In(d2, v) => p = C2[v][r]
  BY DEF Sound
<1>4. ASSUME ~In(d2, v)
      PROVE  \/ \E c \in [Nat -> Int] : Priced(d2, np, c, v, r) /\ c[r] = p
             \/ ~np /\ p > PointerBytes(o)
  <2>1. ~In(d, v)
    BY <1>4, PriceStays
  <2>2. ASSUME NEW c \in [Nat -> Int], Priced(d, np, c, v, r), c[r] = p
        PROVE  Priced(d2, np, c, v, r)
    BY <2>2, PricedStays DEF Sound
  <2> QED
    BY <2>1, <2>2 DEF Sound
<1> QED
  BY <1>1, <1>2, <1>3, <1>4 DEF Sound

(* One item more, for its price, or in a first emission that has become long. *)
LEMMA SoundStep ==
    ASSUME NEW d, Table(d), NEW C, NEW np, Book(C, d, np),
           NEW v \in Values, NEW o, NEW r, NEW p, Sound(C, d, np, v, o, r, p),
           r <= Len(v.items), In(d, v.items[r]), NEW q \in Nat,
           \/ q = Price(d, np, v.items[r])
           \/ ~In(d, v) /\ ~np /\ p + q > PointerBytes(o),
           o \in Nat
    PROVE  Sound(C, d, np, v, o, r + 1, p + q)
<1>1. PICK n \in Nat, b \in Nat : n = Len(v.items) /\ b = PointerBytes(o)
  BY Items, PointersCost
<1>2. r \in 1 .. n + 1 /\ p \in Nat /\ r <= n
  BY <1>1 DEF Sound
<1>3. /\ r \in 1 .. n /\ r \in Nat /\ r + 1 \in 1 .. n + 1 /\ p + q \in Nat
      /\ (r + 1) - 1 = r /\ (n + 1) - 1 = n
      /\ p > b => p + q > b
  BY SMT, <1>2
<1>4. /\ 1 \in 1 .. r
      /\ \A k \in 1 .. r : k \in Nat /\ k # r + 1 /\ (k \in 1 .. r - 1 \/ k = r)
      /\ \A k \in 1 .. r - 1 : k + 1 \in 1 .. r
      /\ r + 1 \in Nat
  BY SMT, <1>3
<1>5. \A k \in 1 .. (r + 1) - 1 : In(d, v.items[k])
  <2>1. \A k \in 1 .. r : In(d, v.items[k])
    BY <1>4 DEF Sound
  <2> QED
    BY <2>1, <1>3
<1>6. ASSUME In(d, v) PROVE p + q = C[v][r + 1]
  <2>1. /\ Of(d, v) \in d /\ Of(d, v).value = v /\ ~Wins(d, np, v)
        /\ p = C[v][r] /\ q = Price(d, np, v.items[r])
    BY <1>6, OfIn DEF Sound
  <2>2. Priced(d, np, C[v], v, n + 1)
    BY <1>1, <2>1 DEF Book
  <2>3. r \in 1 .. (n + 1) - 1
    BY <1>3
  <2> QED
    BY <2>1, <2>2, <2>3 DEF Priced
<1>7. ASSUME q = Price(d, np, v.items[r]),
             NEW c \in [Nat -> Int], Priced(d, np, c, v, r), c[r] = p
      PROVE  \E g \in [Nat -> Int] : Priced(d, np, g, v, r + 1) /\ g[r + 1] = p + q
  <2>1. PICK z \in Int : z = p + q
    BY <1>3
  <2> DEFINE g == [k \in Nat |-> IF k = r + 1 THEN z ELSE c[k]]
  <2>2. g \in [Nat -> Int] /\ g[r + 1] = z
    BY <1>4, <1>7, <2>1
  <2>3. \A k \in 1 .. r : g[k] = c[k]
    BY <1>4
  <2> HIDE DEF g
  <2>4. g[1] = v.head
    BY <1>4, <1>7, <2>3 DEF Priced
  <2>5. ASSUME NEW k \in 1 .. r PROVE g[k + 1] = g[k] + Price(d, np, v.items[k])
    <3>1. CASE k = r
      BY <1>7, <2>1, <2>2, <2>3, <2>5, <3>1
    <3>2. CASE k \in 1 .. r - 1
      <4>1. k + 1 \in 1 .. r
        BY <1>4, <3>2
      <4>2. c[k + 1] = c[k] + Price(d, np, v.items[k])
        BY <1>7, <3>2 DEF Priced
      <4> QED
        BY <2>3, <2>5, <4>1, <4>2
    <3> QED
      BY <1>4, <2>5, <3>1, <3>2
  <2>6. Priced(d, np, g, v, r + 1)
    BY <1>3, <2>4, <2>5 DEF Priced
  <2> QED
    BY <2>1, <2>2, <2>6
<1>8. ASSUME ~In(d, v)
      PROVE  \/ \E c \in [Nat -> Int] : Priced(d, np, c, v, r + 1) /\ c[r + 1] = p + q
             \/ ~np /\ p + q > PointerBytes(o)
  <2>1. CASE ~np /\ p > PointerBytes(o)
    BY <1>1, <1>3, <2>1
  <2>2. CASE ~np /\ p + q > PointerBytes(o)
    BY <2>2
  <2>3. CASE /\ q = Price(d, np, v.items[r])
             /\ \E c \in [Nat -> Int] : Priced(d, np, c, v, r) /\ c[r] = p
    BY <1>7, <2>3
  <2> QED
    BY <1>8, <2>1, <2>2, <2>3 DEF Sound
<1> QED
  BY <1>1, <1>3, <1>5, <1>6, <1>8 DEF Sound

-----------------------------------------------------------------------------
(***************************************************************************)
(* The stack s of the recursion in a section of z bytes: a frame that is   *)
(* not the last one is in the middle of its item before `next', which is   *)
(* the value of the frame above it.                                        *)
(***************************************************************************)
Reached(s, i)  == IF i = Len(s) THEN s[i].next ELSE s[i].next - 1
Spent(s, z, i) == (IF i = Len(s) THEN z ELSE s[i + 1].offset) - s[i].offset

SoundFrame(C, d, np, s, z, i) ==
    Sound(C, d, np, s[i].value, s[i].offset, Reached(s, i), Spent(s, z, i))

Stacked(C, d, np, s, z) ==
    /\ \A i \in 1 .. Len(s) : SoundFrame(C, d, np, s, z, i)
    /\ \A i \in 1 .. Len(s) - 1 : /\ Reached(s, i) <= Len(s[i].value.items)
                                  /\ s[i + 1].value = s[i].value.items[Reached(s, i)]
    /\ \A i, j \in 1 .. Len(s) : i < j /\ In(d, s[i].value) => In(d, s[j].value)

LEMMA FrameOf ==
    ASSUME NEW s \in Seq(Frame), NEW i \in 1 .. Len(s)
    PROVE  s[i].value \in Values /\ s[i].offset \in Nat /\ s[i].next \in Nat \ {0}
<1>1. s[i] \in Frame
  BY ElementOfSeq
<1> QED
  BY <1>1 DEF Frame

(* The innermost encoding writes one of its items, for its price, as a pointer. *)
LEMMA StackedStep ==
    ASSUME NEW d, Table(d), NEW C, NEW np, Book(C, d, np), NEW z \in Nat,
           NEW s \in Seq(Frame), NEW n \in Nat \ {0}, Len(s) = n, Stacked(C, d, np, s, z),
           s[n].next <= Len(s[n].value.items), In(d, s[n].value.items[s[n].next]),
           NEW q \in Nat, q = Price(d, np, s[n].value.items[s[n].next]),
           NEW t \in Seq(Frame), Len(t) = n, t[n].next = s[n].next + 1,
           \A i \in 1 .. n - 1 : t[i] = s[i],
           t[n].value = s[n].value, t[n].offset = s[n].offset
    PROVE  Stacked(C, d, np, t, z + q)
<1>1. n \in 1 .. n /\ \A i \in 1 .. n : i = n \/ (i \in 1 .. n - 1 /\ i # n)
  BY SMT
<1>2. ASSUME NEW i \in 1 .. n - 1
      PROVE  /\ i \in 1 .. n /\ t[i] = s[i] /\ t[i + 1].offset = s[i + 1].offset
             /\ t[i + 1].value = s[i + 1].value
             /\ Reached(t, i) = Reached(s, i) /\ Spent(t, z + q, i) = Spent(s, z, i)
  <2>1. i \in 1 .. n /\ i # n /\ (i + 1 = n \/ i + 1 \in 1 .. n - 1)
    BY SMT
  <2>2. t[i] = s[i] /\ t[i + 1].offset = s[i + 1].offset /\ t[i + 1].value = s[i + 1].value
    BY <2>1
  <2> QED
    BY <2>1, <2>2 DEF Reached, Spent
<1>3. SoundFrame(C, d, np, t, z + q, n)
  <2>1. /\ s[n].value \in Values /\ s[n].offset \in Nat /\ s[n].next \in Nat
        /\ Sound(C, d, np, s[n].value, s[n].offset, s[n].next, z - s[n].offset)
    BY <1>1, FrameOf DEF Stacked, SoundFrame, Reached, Spent
  <2>2. Sound(C, d, np, s[n].value, s[n].offset, s[n].next + 1, (z - s[n].offset) + q)
    BY <2>1, SoundStep
  <2>3. (z - s[n].offset) + q = (z + q) - s[n].offset
    BY SMT, <2>1
  <2> QED
    BY <2>2, <2>3 DEF SoundFrame, Reached, Spent
<1>4. \A i \in 1 .. n - 1 : SoundFrame(C, d, np, t, z + q, i)
  BY <1>2 DEF Stacked, SoundFrame
<1>5. \A i \in 1 .. n : t[i].value = s[i].value
  BY <1>1
<1> QED
  BY <1>1, <1>2, <1>3, <1>4, <1>5 DEF Stacked

(* The header of v is written: of the innermost encoding's next item, or of a pushed value. *)
LEMMA StackedOpen ==
    ASSUME NEW d, Table(d), NEW C, NEW np, Book(C, d, np), NEW z \in Nat,
           NEW s \in Seq(Frame), NEW n \in Nat, Len(s) = n, Stacked(C, d, np, s, z),
           NEW v \in Values, ~Wins(d, np, v),
           n # 0 => s[n].next <= Len(s[n].value.items) /\ v = s[n].value.items[s[n].next],
           NEW t \in Seq(Frame), Len(t) = n + 1,
           \A i \in 1 .. n - 1 : t[i] = s[i],
           n # 0 => /\ t[n].value = s[n].value /\ t[n].offset = s[n].offset
                    /\ t[n].next = s[n].next + 1,
           t[n + 1].value = v, t[n + 1].offset = z, t[n + 1].next = 1
    PROVE  Stacked(C, d, np, t, z + v.head)
<1>1. v.head \in Nat
  BY Items
<1>2. ASSUME NEW i \in 1 .. n
      PROVE  /\ t[i].value = s[i].value /\ t[i].offset = s[i].offset
             /\ Reached(t, i) = Reached(s, i) /\ Spent(t, z + v.head, i) = Spent(s, z, i)
  <2>1. CASE i = n
    <3>1. n # 0 /\ n # n + 1 /\ s[n].next \in Nat /\ (s[n].next + 1) - 1 = s[n].next
      BY SMT, <2>1, FrameOf
    <3> QED
      BY <2>1, <3>1 DEF Reached, Spent
  <2>2. CASE i # n
    <3>1. i \in 1 .. n - 1 /\ i # n + 1 /\ (i + 1 = n \/ i + 1 \in 1 .. n - 1)
      BY SMT, <2>2
    <3>2. t[i] = s[i] /\ t[i + 1].offset = s[i + 1].offset
      BY <3>1
    <3> QED
      BY <2>2, <3>1, <3>2 DEF Reached, Spent
  <2> QED
    BY <2>1, <2>2
<1>3. SoundFrame(C, d, np, t, z + v.head, n + 1)
  <2>1. Sound(C, d, np, v, z, 1, v.head)
    BY SoundOpen
  <2>2. (z + v.head) - z = v.head
    BY SMT, <1>1
  <2> QED
    BY <2>1, <2>2 DEF SoundFrame, Reached, Spent
<1>4. \A i \in 1 .. n : SoundFrame(C, d, np, t, z + v.head, i)
  BY <1>2 DEF Stacked, SoundFrame
<1>5. \A i \in 1 .. n + 1 : i \in 1 .. n \/ i = n + 1
  BY SMT
<1>6. ASSUME NEW i \in 1 .. n
      PROVE  /\ Reached(t, i) <= Len(t[i].value.items)
             /\ t[i + 1].value = t[i].value.items[Reached(t, i)]
  <2>1. CASE i = n
    <3>1. n # 0 /\ Reached(t, n) = s[n].next
      BY SMT, <1>2, <1>6, <2>1 DEF Reached
    <3> QED
      BY <1>2, <1>6, <2>1, <3>1
  <2>2. CASE i # n
    <3>1. i \in 1 .. n - 1 /\ i + 1 \in 1 .. n
      BY SMT, <2>2
    <3>2. t[i + 1].value = s[i + 1].value
      BY <1>2, <3>1
    <3> QED
      BY <1>2, <3>1, <3>2 DEF Stacked
  <2> QED
    BY <2>1, <2>2
<1>7. ASSUME NEW i \in 1 .. n + 1, NEW j \in 1 .. n + 1, i < j, In(d, t[i].value)
      PROVE  In(d, t[j].value)
  <2>1. i \in 1 .. n /\ n \in 1 .. n /\ n # 0
    BY SMT, <1>7
  <2>2. CASE j \in 1 .. n
    BY <1>2, <1>7, <2>1, <2>2 DEF Stacked
  <2>3. CASE j = n + 1
    <3>1. In(d, s[n].value)
      <4>1. i = n \/ i < n
        BY SMT, <2>1
      <4> QED
        BY <1>2, <1>7, <2>1, <4>1 DEF Stacked
    <3>2. Of(d, s[n].value) \in d /\ Of(d, s[n].value).value = s[n].value
      BY <3>1, OfIn
    <3>3. s[n].next \in 1 .. Len(s[n].value.items)
      BY <2>1, FrameOf, Items
    <3> QED
      <4>1. PICK e \in d : e.value = s[n].value
        BY <3>2
      <4>2. In(d, e.value.items[s[n].next])
        BY <3>3, <4>1 DEF Book
      <4>3. t[j].value = s[n].value.items[s[n].next]
        BY <2>1, <2>3
      <4> QED
        BY <4>1, <4>2, <4>3
  <2> QED
    BY <1>5, <2>2, <2>3
<1>8. \A i \in 1 .. (n + 1) - 1 : i \in 1 .. n
  BY SMT
<1> QED
  BY <1>3, <1>4, <1>5, <1>6, <1>7, <1>8 DEF Stacked

-----------------------------------------------------------------------------
(* The value at the top of the stack is nowhere else on it. *)
Innermost(s, n) == \A i \in 1 .. n - 1 : s[i].value # s[n].value

(* What the frames know when the innermost encoding is done with its items. *)
LEMMA StackedDone ==
    ASSUME NEW d, Table(d), NEW C, NEW np, NEW z \in Nat,
           NEW s \in Seq(Frame), NEW n \in Nat \ {0}, Len(s) = n, Stacked(C, d, np, s, z),
           s[n].next > Len(s[n].value.items)
    PROVE  /\ Sound(C, d, np, s[n].value, s[n].offset, Len(s[n].value.items) + 1, z - s[n].offset)
           /\ \A k \in 1 .. Len(s[n].value.items) : In(d, s[n].value.items[k])
           /\ ~In(d, s[n].value) => Innermost(s, n)
<1> DEFINE v == s[n].value
<1>1. n \in 1 .. n /\ v \in Values /\ s[n].next \in Nat /\ Len(v.items) \in Nat
  BY FrameOf, Items
<1>2. Sound(C, d, np, v, s[n].offset, s[n].next, z - s[n].offset)
  BY <1>1 DEF Stacked, SoundFrame, Reached, Spent
<1>3. s[n].next = Len(v.items) + 1
  <2>1. s[n].next \in 1 .. Len(v.items) + 1
    BY <1>2 DEF Sound
  <2> QED
    BY SMT, <1>1, <2>1
<1>4. \A k \in 1 .. Len(v.items) : In(d, v.items[k])
  <2>1. (Len(v.items) + 1) - 1 = Len(v.items)
    BY SMT, <1>1
  <2> QED
    BY <1>2, <1>3, <2>1 DEF Sound
<1>5. ASSUME ~In(d, v), NEW i \in 1 .. n - 1, s[i].value = v
      PROVE  FALSE
  <2>1. i \in 1 .. n /\ i + 1 \in 1 .. n /\ (i + 1 = n \/ i + 1 < n)
    BY SMT
  <2>2. /\ Reached(s, i) <= Len(v.items) /\ s[i + 1].value = v.items[Reached(s, i)]
        /\ SoundFrame(C, d, np, s, z, i)
    BY <1>5, <2>1 DEF Stacked
  <2>3. Reached(s, i) \in 1 .. Len(v.items)
    <3>1. Reached(s, i) \in 1 .. Len(v.items) + 1
      BY <1>5, <2>2 DEF SoundFrame, Sound
    <3> QED
      BY SMT, <1>1, <2>2, <3>1
  <2>4. In(d, s[i + 1].value)
    BY <1>4, <2>2, <2>3
  <2> QED
    BY <1>1, <1>5, <2>1, <2>4 DEF Stacked
<1> QED
  BY <1>2, <1>3, <1>4, <1>5 DEF Innermost

(* A copy has cost its entry's length. *)
LEMMA CopyCost ==
    ASSUME NEW d, Table(d), NEW C, NEW np, Book(C, d, np), NEW v, NEW o, NEW p,
           Sound(C, d, np, v, o, Len(v.items) + 1, p), In(d, v)
    PROVE  p = Of(d, v).len
<1>1. Of(d, v) \in d /\ Of(d, v).value = v
  BY OfIn
<1>2. ~Wins(d, np, v) /\ p = C[v][Len(v.items) + 1]
  BY DEF Sound
<1> QED
  BY <1>1, <1>2 DEF Book

(* The tables, and the books, differ in what they say of v only. *)
OnlyNew(d, f, v)    == \A w : w # v /\ In(f, w) => In(d, w)
SameBook(C, K, d, v) == \A w : w # v /\ In(d, w) => K[w] = C[w]

(* e is the entry that a sound encoding of v ends with, and f the table with it. *)
Adds(C, d, np, v, e, f) ==
    /\ v \in Values /\ ~In(d, v)
    /\ e \in [value : Values, offset : Nat, len : Int] /\ e.value = v
    /\ Sound(C, d, np, v, e.offset, Len(v.items) + 1, e.len)
    /\ f = d \cup {e}

(* The table learns of the value that has been encoded, and the book of its prices. *)
LEMMA BookGrows ==
    ASSUME NEW d, Table(d), NEW C, NEW np, Book(C, d, np),
           NEW v, NEW e, NEW f, Adds(C, d, np, v, e, f)
    PROVE  /\ Table(f) /\ In(f, v) /\ Of(f, v) = e /\ OnlyNew(d, f, v)
           /\ \E K : Book(K, f, np) /\ SameBook(C, K, d, v)
<1>0. PICK o \in Nat, p \in Int :
          /\ v \in Values /\ ~In(d, v) /\ f = d \cup {e}
          /\ e \in [value : Values, offset : Nat, len : Int]
          /\ e.value = v /\ e.offset = o /\ e.len = p
          /\ Sound(C, d, np, v, o, Len(v.items) + 1, p)
  BY DEF Adds
<1> USE <1>0
<1>1. Table(f) /\ d \subseteq f
  BY DEF Table, In
<1>2. In(f, v) /\ e \in f
  BY DEF In
<1>3. Of(f, v) = e
  <2>1. Of(f, v) \in f /\ Of(f, v).value = v
    BY <1>1, <1>2, OfIn
  <2> QED
    BY <1>1, <1>2, <2>1 DEF Table
<1>4. OnlyNew(d, f, v)
  BY DEF In, OnlyNew
<1>5. Len(v.items) \in Nat /\ (Len(v.items) + 1) - 1 = Len(v.items)
  BY SMT, Items
<1>6. \A k \in 1 .. Len(v.items) : In(d, v.items[k])
  BY <1>5 DEF Sound
<1>7. \A g \in f : \A k \in 1 .. Len(g.value.items) : In(f, g.value.items[k])
  <2>1. ASSUME NEW g \in f, NEW k \in 1 .. Len(g.value.items)
        PROVE  In(d, g.value.items[k])
    <3>1. CASE g \in d
      BY <2>1, <3>1 DEF Book
    <3>2. CASE g = e
      BY <1>6, <2>1, <3>2
    <3> QED
      BY <2>1, <3>1, <3>2
  <2> QED
    BY <1>1, <2>1, PriceStays
<1>8. PICK c \in [Nat -> Int] :
          ~Wins(f, np, v) => Priced(d, np, c, v, Len(v.items) + 1) /\ c[Len(v.items) + 1] = p
  <2>1. CASE ~np /\ p > PointerBytes(o)
    <3>1. Wins(f, np, v)
      BY <1>2, <1>3, <2>1 DEF Wins
    <3>2. [k \in Nat |-> 0] \in [Nat -> Int]
      OBVIOUS
    <3> QED
      BY <3>1, <3>2
  <2> QED
    BY <2>1 DEF Sound
<1>9. PICK K \in [Values -> [Nat -> Int]] : K = [C EXCEPT ![v] = c]
  BY DEF Book
<1>10. K[v] = c /\ \A w \in Values : w # v => K[w] = C[w]
  BY <1>9 DEF Book
<1>11. ASSUME NEW g \in f, ~Wins(f, np, g.value)
       PROVE  /\ Priced(f, np, K[g.value], g.value, Len(g.value.items) + 1)
              /\ K[g.value][Len(g.value.items) + 1] = g.len
  <2>1. CASE g \in d
    <3>1. In(d, g.value) /\ g.value # v /\ g.value \in Values
      BY <2>1 DEF In, Table
    <3>2. ~Wins(d, np, g.value)
      <4>1. In(f, g.value) /\ Of(f, g.value) = Of(d, g.value)
        BY <1>1, <3>1, PriceStays
      <4> QED
        BY <1>11, <4>1 DEF Wins
    <3>3. /\ Priced(d, np, C[g.value], g.value, Len(g.value.items) + 1)
          /\ C[g.value][Len(g.value.items) + 1] = g.len
      BY <2>1, <3>2 DEF Book
    <3>4. \A k \in 1 .. (Len(g.value.items) + 1) - 1 : In(d, g.value.items[k])
      <4>1. (Len(g.value.items) + 1) - 1 = Len(g.value.items)
        BY SMT, <3>1, Items
      <4> QED
        BY <2>1, <4>1 DEF Book
    <3>5. Priced(f, np, C[g.value], g.value, Len(g.value.items) + 1)
      BY <1>1, <3>3, <3>4, PricedStays
    <3> QED
      BY <1>10, <3>1, <3>3, <3>5
  <2>2. CASE g = e
    <3>1. Priced(d, np, c, v, Len(v.items) + 1) /\ c[Len(v.items) + 1] = p
      BY <1>8, <1>11, <2>2
    <3>2. Priced(f, np, c, v, Len(v.items) + 1)
      BY <1>1, <1>5, <1>6, <3>1, PricedStays
    <3> QED
      BY <1>10, <2>2, <3>1, <3>2
  <2> QED
    BY <1>11, <2>1, <2>2
<1>12. Book(K, f, np)
  BY <1>7, <1>9, <1>11 DEF Book
<1>13. SameBook(C, K, d, v)
  BY <1>10 DEF In, Table, SameBook
<1> QED
  BY <1>1, <1>2, <1>3, <1>4, <1>12, <1>13

(* The encoding of a value that is in the table ends. *)
LEMMA StackedPopKnown ==
    ASSUME NEW d, Table(d), NEW C, NEW np, Book(C, d, np), NEW z \in Nat,
           NEW s \in Seq(Frame), NEW n \in Nat \ {0}, Len(s) = n, Stacked(C, d, np, s, z),
           s[n].next > Len(s[n].value.items), In(d, s[n].value),
           NEW t \in Seq(Frame), Len(t) = n - 1, \A i \in 1 .. n - 1 : t[i] = s[i]
    PROVE  Stacked(C, d, np, t, z)
<1>1. n \in 1 .. n /\ \A i \in 1 .. n - 1 : i \in 1 .. n /\ i < n
  BY SMT
<1>2. PICK q \in Nat : q = z - s[n].offset /\ q = Price(d, np, s[n].value)
  <2>1. Sound(C, d, np, s[n].value, s[n].offset, Len(s[n].value.items) + 1, z - s[n].offset)
    BY StackedDone
  <2>2. z - s[n].offset = Of(d, s[n].value).len
    BY <2>1, CopyCost
  <2> QED
    BY <2>1, <2>2 DEF Sound, Price
<1>3. ASSUME NEW i \in 1 .. n - 1, i # n - 1
      PROVE  Reached(t, i) = Reached(s, i) /\ Spent(t, z, i) = Spent(s, z, i)
  <2>1. i # n /\ i + 1 \in 1 .. n - 1
    BY SMT, <1>3
  <2> QED
    BY <1>3, <2>1 DEF Reached, Spent
<1>4. ASSUME n - 1 \in 1 .. n - 1 PROVE SoundFrame(C, d, np, t, z, n - 1)
  <2> DEFINE m == n - 1
  <2>1. m \in 1 .. n /\ m # n /\ m + 1 = n /\ m < n
    BY SMT, <1>4
  <2>2. /\ s[m].value \in Values /\ s[m].offset \in Nat /\ s[m].next \in Nat
        /\ s[n].offset \in Nat /\ t[m] = s[m]
    BY <1>1, <1>4, <2>1, FrameOf
  <2>3. /\ Sound(C, d, np, s[m].value, s[m].offset, s[m].next - 1, s[n].offset - s[m].offset)
        /\ s[m].next - 1 <= Len(s[m].value.items)
        /\ s[n].value = s[m].value.items[s[m].next - 1]
    BY <1>4, <2>1 DEF Stacked, SoundFrame, Reached, Spent
  <2>4. Sound(C, d, np, s[m].value, s[m].offset, (s[m].next - 1) + 1, (s[n].offset - s[m].offset) + q)
    BY <1>2, <2>2, <2>3, SoundStep
  <2>5. (s[m].next - 1) + 1 = s[m].next /\ (s[n].offset - s[m].offset) + q = z - s[m].offset
    BY SMT, <1>2, <2>2
  <2> QED
    BY <2>2, <2>4, <2>5 DEF SoundFrame, Reached, Spent
<1>5. \A i \in 1 .. n - 1 : SoundFrame(C, d, np, t, z, i)
  <2>1. ASSUME NEW i \in 1 .. n - 1, i # n - 1 PROVE SoundFrame(C, d, np, t, z, i)
    BY <1>1, <1>3, <2>1 DEF Stacked, SoundFrame
  <2> QED
    BY <1>4, <2>1
<1>6. \A i \in 1 .. (n - 1) - 1 : i \in 1 .. n - 1 /\ i # n - 1 /\ i + 1 \in 1 .. n - 1
  BY SMT
<1>7. ASSUME NEW i \in 1 .. (n - 1) - 1
      PROVE  /\ Reached(t, i) <= Len(t[i].value.items)
             /\ t[i + 1].value = t[i].value.items[Reached(t, i)]
  BY <1>3, <1>6 DEF Stacked
<1>8. \A i, j \in 1 .. n - 1 : i < j /\ In(d, t[i].value) => In(d, t[j].value)
  BY <1>1 DEF Stacked
<1> QED
  BY <1>5, <1>7, <1>8 DEF Stacked

(* There is a book that the table and the stack agree with. *)
Costs(d, np, s, z) == \E C : Book(C, d, np) /\ Stacked(C, d, np, s, z)

(* e is the entry of an encoding that ends at z, and f the table with it. *)
Enters(d, frame, z, e, f) ==
    /\ e \in [value : Values, offset : Nat, len : Int]
    /\ e.value = frame.value /\ e.offset = frame.offset /\ e.len = z - frame.offset
    /\ f = d \cup {e}

(* That of a value that becomes an entry of the table ends. *)
LEMMA StackedPopNew ==
    ASSUME NEW d, Table(d), NEW C, NEW np, Book(C, d, np), NEW z \in Nat,
           NEW s \in Seq(Frame), NEW n \in Nat \ {0}, Len(s) = n, Stacked(C, d, np, s, z),
           s[n].next > Len(s[n].value.items), ~In(d, s[n].value),
           NEW t \in Seq(Frame), Len(t) = n - 1, \A i \in 1 .. n - 1 : t[i] = s[i],
           NEW e, NEW f, Enters(d, s[n], z, e, f)
    PROVE  Costs(f, np, t, z)
<1> DEFINE v == s[n].value
<1>0. /\ e \in [value : Values, offset : Nat, len : Int]
      /\ e.value = v /\ e.offset = s[n].offset /\ e.len = z - s[n].offset
      /\ f = d \cup {e}
  BY DEF Enters
<1>1. n \in 1 .. n /\ \A i \in 1 .. n - 1 : i \in 1 .. n /\ i < n
  BY SMT
<1>2. /\ v \in Values /\ s[n].offset \in Nat
      /\ Sound(C, d, np, v, s[n].offset, Len(v.items) + 1, z - s[n].offset)
      /\ \A i \in 1 .. n - 1 : s[i].value # v
  <2>1. v \in Values /\ s[n].offset \in Nat
    BY <1>1, FrameOf
  <2>2. Sound(C, d, np, v, s[n].offset, Len(v.items) + 1, z - s[n].offset)
    BY StackedDone
  <2>3. Innermost(s, n)
    BY StackedDone
  <2> QED
    BY <2>1, <2>2, <2>3 DEF Innermost
<1>3. PICK q \in Nat : q = z - s[n].offset
  BY <1>2 DEF Sound
<1>4. /\ Table(f) /\ In(f, v) /\ Of(f, v) = e
      /\ OnlyNew(d, f, v)
      /\ \E K : Book(K, f, np) /\ SameBook(C, K, d, v)
  <2>1. Adds(C, d, np, v, e, f)
    BY <1>0, <1>2 DEF Adds
  <2> QED
    BY <2>1, BookGrows
<1>5. d \subseteq f
  BY <1>0
<1>6. PICK K : Book(K, f, np) /\ SameBook(C, K, d, v)
  BY <1>4
<1>7. ASSUME NEW i \in 1 .. n - 1
      PROVE  Sound(K, f, np, s[i].value, s[i].offset, Reached(s, i), Spent(s, z, i))
  <2>1. /\ Sound(C, d, np, s[i].value, s[i].offset, Reached(s, i), Spent(s, z, i))
        /\ s[i].value # v
    BY <1>1, <1>2, <1>7 DEF Stacked, SoundFrame
  <2>2. /\ In(f, s[i].value) => In(d, s[i].value)
        /\ In(d, s[i].value) => K[s[i].value] = C[s[i].value]
    BY <1>4, <1>6, <2>1 DEF OnlyNew, SameBook
  <2> QED
    BY <1>4, <1>5, <2>1, <2>2, SoundStays
<1>8. ASSUME NEW i \in 1 .. n - 1, i # n - 1
      PROVE  Reached(t, i) = Reached(s, i) /\ Spent(t, z, i) = Spent(s, z, i)
  <2>1. i # n /\ i + 1 \in 1 .. n - 1
    BY SMT, <1>8
  <2> QED
    BY <1>8, <2>1 DEF Reached, Spent
<1>9. ASSUME n - 1 \in 1 .. n - 1 PROVE SoundFrame(K, f, np, t, z, n - 1)
  <2> DEFINE m == n - 1
             w == s[m].value
             p == s[n].offset - s[m].offset
  <2>1. m \in 1 .. n - 1 /\ m \in 1 .. n /\ m # n /\ m + 1 = n /\ m < n
    BY SMT, <1>9
  <2>2. /\ w \in Values /\ s[m].offset \in Nat /\ s[m].next \in Nat
        /\ s[n].offset \in Nat /\ t[m] = s[m]
    BY <1>1, <2>1, FrameOf
  <2>3. /\ Sound(K, f, np, w, s[m].offset, s[m].next - 1, p)
        /\ s[m].next - 1 <= Len(w.items) /\ v = w.items[s[m].next - 1]
    BY <1>7, <2>1 DEF Stacked, Reached, Spent
  <2>4. ~In(f, w)
    <3>1. ~In(d, w) /\ w # v
      BY <1>1, <1>2, <2>1 DEF Stacked
    <3> QED
      BY <1>4, <3>1 DEF OnlyNew
  <2>5. \/ q = Price(f, np, v)
        \/ ~In(f, w) /\ ~np /\ p + q > PointerBytes(s[m].offset)
    <3>1. CASE Wins(f, np, v)
      <4>1. ~np /\ q > PointerBytes(s[n].offset)
        BY <1>0, <1>3, <1>4, <3>1 DEF Wins
      <4>2. p \in Nat
        BY <2>3 DEF Sound
      <4>3. /\ PointerBytes(s[n].offset) \in Nat /\ PointerBytes(s[m].offset) \in Nat
            /\ s[m].offset <= s[n].offset =>
                   PointerBytes(s[m].offset) <= PointerBytes(s[n].offset)
        BY <2>2, PointersCost
      <4>4. p + q > PointerBytes(s[m].offset)
        BY SMTT(20), <2>2, <4>1, <4>2, <4>3
      <4> QED
        BY <2>4, <4>1, <4>4
    <3>2. CASE ~Wins(f, np, v)
      BY <1>0, <1>3, <1>4, <3>2 DEF Price
    <3> QED
      BY <3>1, <3>2
  <2>6. Sound(K, f, np, w, s[m].offset, (s[m].next - 1) + 1, p + q)
    BY <1>4, <1>6, <2>2, <2>3, <2>5, SoundStep
  <2>7. (s[m].next - 1) + 1 = s[m].next /\ p + q = z - s[m].offset
    BY SMTT(20), <1>3, <2>2
  <2> QED
    BY <2>2, <2>6, <2>7 DEF SoundFrame, Reached, Spent
<1>10. \A i \in 1 .. n - 1 : SoundFrame(K, f, np, t, z, i)
  <2>1. ASSUME NEW i \in 1 .. n - 1, i # n - 1 PROVE SoundFrame(K, f, np, t, z, i)
    BY <1>7, <1>8, <2>1 DEF SoundFrame
  <2> QED
    BY <1>9, <2>1
<1>11. \A i \in 1 .. (n - 1) - 1 : i \in 1 .. n - 1 /\ i # n - 1 /\ i + 1 \in 1 .. n - 1
  BY SMT
<1>12. ASSUME NEW i \in 1 .. (n - 1) - 1
       PROVE  /\ Reached(t, i) <= Len(t[i].value.items)
              /\ t[i + 1].value = t[i].value.items[Reached(t, i)]
  BY <1>8, <1>11 DEF Stacked
<1>13. ASSUME NEW i \in 1 .. n - 1, NEW j \in 1 .. n - 1, i < j, In(f, t[i].value)
       PROVE  In(f, t[j].value)
  <2>1. In(d, s[i].value)
    BY <1>2, <1>4, <1>13 DEF OnlyNew
  <2>2. In(d, s[j].value)
    BY <1>1, <1>13, <2>1 DEF Stacked
  <2> QED
    BY <1>4, <1>5, <1>13, <2>2 DEF In
<1>14. Stacked(K, f, np, t, z)
  BY <1>10, <1>12, <1>13 DEF Stacked
<1> QED
  BY <1>6, <1>14 DEF Costs

-----------------------------------------------------------------------------
Costed == Costs(dedup, noPointers, stack, size)

LEMMA TheTable ==
    ASSUME IInv
    PROVE  /\ Typed /\ Table(dedup) /\ size \in Nat /\ stack \in Seq(Frame)
           /\ \A v : Known(v) = In(dedup, v) /\ PointerWins(v) = Wins(dedup, noPointers, v)
BY DEF IInv, Typed, TypeOK, Table, Known, In, Entry, Of, PointerWins, Wins

(* The frame on top, as the lemmas about stacks want it. *)
LEMMA TopOf ==
    ASSUME Typed, stack # << >>
    PROVE  /\ Len(stack) \in Nat \ {0} /\ Top = stack[Len(stack)]
           /\ Advanced \in Seq(Frame) /\ Len(Advanced) = Len(stack)
           /\ \A i \in 1 .. Len(stack) - 1 : Advanced[i] = stack[i]
           /\ Advanced[Len(stack)].value = Top.value
           /\ Advanced[Len(stack)].offset = Top.offset
           /\ Advanced[Len(stack)].next = Top.next + 1
           /\ Below \in Seq(Frame) /\ Len(Below) = Len(stack) - 1
           /\ \A i \in 1 .. Len(stack) - 1 : Below[i] = stack[i]
<1>1. PICK n \in Nat \ {0} : n = Len(stack) /\ n \in DOMAIN stack /\ DOMAIN stack = 1 .. n
  BY DEF Typed
<1>2. stack[n] \in Frame /\ stack \in Seq(Frame)
  BY <1>1 DEF Typed
<1>3. PICK g \in Frame : /\ g = [stack[n] EXCEPT !.next = @ + 1]
                         /\ g.value = stack[n].value /\ g.offset = stack[n].offset
                         /\ g.next = stack[n].next + 1
  <2>1. PICK f \in Frame : f = stack[n]
    BY <1>2
  <2>2. /\ [f EXCEPT !.next = @ + 1] \in Frame
        /\ [f EXCEPT !.next = @ + 1].value = f.value
        /\ [f EXCEPT !.next = @ + 1].offset = f.offset
        /\ [f EXCEPT !.next = @ + 1].next = f.next + 1
    BY DEF Frame
  <2> QED
    BY <2>1, <2>2
<1>4. Advanced = [stack EXCEPT ![n] = g]
  BY <1>1, <1>3 DEF Advanced
<1>5. /\ Advanced \in Seq(Frame) /\ Len(Advanced) = n
      /\ \A i \in 1 .. n : Advanced[i] = IF i = n THEN g ELSE stack[i]
  BY <1>1, <1>2, <1>4
<1>6. Below \in Seq(Frame) /\ Len(Below) = n - 1 /\ \A i \in 1 .. n - 1 : Below[i] = stack[i]
  BY <1>1, <1>2 DEF Below
<1>7. \A i \in 1 .. n - 1 : i \in 1 .. n /\ i # n
  BY SMT
<1> QED
  BY <1>1, <1>3, <1>5, <1>6, <1>7 DEF Top

LEMMA InitCosted == Init => Costed
<1> SUFFICES ASSUME Init PROVE Costed
  OBVIOUS
<1>1. dedup = {} /\ stack = << >> /\ Len(stack) = 0
  BY DEF Init
<1>2. Book([v \in Values |-> [k \in Nat |-> 0]], dedup, noPointers)
  BY <1>1 DEF Book
<1>3. \A i \in 1 .. 0 : FALSE
  BY SMT
<1>4. \A i \in 1 .. 0 - 1 : FALSE
  BY SMT
<1>5. Stacked([v \in Values |-> [k \in Nat |-> 0]], dedup, noPointers, stack, size)
  BY <1>1, <1>3, <1>4 DEF Stacked
<1> QED
  BY <1>2, <1>5 DEF Costed, Costs

(* A header at the end of the section. *)
LEMMA OpenCosted ==
    ASSUME IInv, Costed, NEW v \in Values, NEW below \in Seq(Frame), ~PointerWins(v),
           Open(v, below), UNCHANGED <<dedup, noPointers>>,
           \/ stack = << >> /\ below = << >>
           \/ HasItem /\ v = Item /\ below = Advanced
    PROVE  Costed'
<1>1. /\ Typed /\ Table(dedup) /\ size \in Nat /\ stack \in Seq(Frame)
      /\ ~Wins(dedup, noPointers, v)
  BY TheTable
<1>2. PICK C : Book(C, dedup, noPointers) /\ Stacked(C, dedup, noPointers, stack, size)
  BY DEF Costed, Costs
<1>3. PICK n \in Nat : n = Len(stack)
  BY <1>1
<1>4. PICK g \in Frame : g.value = v /\ g.offset = size /\ g.next = 1 /\ stack' = Append(below, g)
  <2>1. [value |-> v, offset |-> size, next |-> 1] \in Frame
    BY <1>1 DEF Frame
  <2> QED
    BY <2>1 DEF Open
<1>5. Len(below) = n /\ \A i \in 1 .. n - 1 : below[i] = stack[i]
  <2>1. CASE stack = << >> /\ below = << >>
    BY <1>3, <2>1
  <2>2. CASE HasItem /\ below = Advanced
    BY <1>1, <1>3, <2>2, TopOf DEF HasItem
  <2> QED
    BY <2>1, <2>2
<1>6. ASSUME n # 0
      PROVE  /\ stack[n].next <= Len(stack[n].value.items)
             /\ v = stack[n].value.items[stack[n].next]
             /\ below[n].value = stack[n].value /\ below[n].offset = stack[n].offset
             /\ below[n].next = stack[n].next + 1
  <2>1. HasItem /\ v = Item /\ below = Advanced /\ stack # << >>
    BY <1>3, <1>6 DEF HasItem
  <2> QED
    BY <1>1, <1>3, <2>1, TopOf DEF HasItem, Item
<1>7. /\ stack' \in Seq(Frame) /\ Len(stack') = n + 1
      /\ \A i \in 1 .. n : stack'[i] = below[i]
      /\ stack'[n + 1] = g
  BY <1>4, <1>5
<1>8. /\ \A i \in 1 .. n - 1 : i \in 1 .. n
      /\ n # 0 => n \in 1 .. n
  BY SMT
<1>9. PICK t \in Seq(Frame) : t = stack'
  BY <1>7
<1>10. Stacked(C, dedup, noPointers, t, size + v.head)
  <2>1. /\ Len(t) = n + 1 /\ \A i \in 1 .. n - 1 : t[i] = stack[i]
        /\ t[n + 1].value = v /\ t[n + 1].offset = size /\ t[n + 1].next = 1
    BY <1>4, <1>5, <1>7, <1>8, <1>9
  <2>2. n # 0 => /\ t[n].value = stack[n].value /\ t[n].offset = stack[n].offset
                 /\ t[n].next = stack[n].next + 1
    BY <1>6, <1>7, <1>8, <1>9
  <2>3. n # 0 => /\ stack[n].next <= Len(stack[n].value.items)
                 /\ v = stack[n].value.items[stack[n].next]
    BY <1>6
  <2> QED
    BY ZenonT(40), <1>1, <1>2, <1>3, <2>1, <2>2, <2>3, StackedOpen
<1>11. size' = size + v.head
  BY DEF Open, Write
<1> QED
  BY <1>2, <1>9, <1>10, <1>11 DEF Costed, Costs

LEMMA EmitPointerCosted == ASSUME IInv, Costed, EmitPointer PROVE Costed'
<1>1. /\ Typed /\ Table(dedup) /\ size \in Nat /\ stack \in Seq(Frame)
      /\ HasItem /\ stack # << >> /\ Wins(dedup, noPointers, Item)
  BY TheTable DEF EmitPointer, HasItem
<1>2. PICK C : Book(C, dedup, noPointers) /\ Stacked(C, dedup, noPointers, stack, size)
  BY DEF Costed, Costs
<1>3. PICK n \in Nat \ {0} : n = Len(stack)
  BY <1>1, TopOf
<1>4. In(dedup, Item)
  BY <1>1 DEF Wins
<1>5. PICK q \in Nat : q = Price(dedup, noPointers, Item) /\ size' = size + q
  <2>1. Of(dedup, Item).offset \in Nat
    BY <1>1, <1>4, OfIn
  <2>2. PointerBytes(Of(dedup, Item).offset) \in Nat
    BY <2>1, PointersCost
  <2>3. size' = size + PointerBytes(Of(dedup, Item).offset)
    BY DEF EmitPointer, Write, Entry, Of
  <2> QED
    BY <1>1, <2>2, <2>3 DEF Price
<1>6. PICK t \in Seq(Frame) : t = Advanced /\ t = stack' /\ UNCHANGED <<dedup, noPointers>>
  BY <1>1, TopOf DEF EmitPointer
<1>7. Stacked(C, dedup, noPointers, t, size + q)
  <2>1. Item = stack[n].value.items[stack[n].next]
    BY <1>1, <1>3, TopOf DEF Item
  <2>2. stack[n].next <= Len(stack[n].value.items)
    BY <1>1, <1>3, TopOf DEF HasItem
  <2>3. /\ Len(t) = n /\ \A i \in 1 .. n - 1 : t[i] = stack[i]
        /\ t[n].value = stack[n].value /\ t[n].offset = stack[n].offset
        /\ t[n].next = stack[n].next + 1
    BY <1>1, <1>3, <1>6, TopOf
  <2> QED
    BY <1>1, <1>2, <1>3, <1>4, <1>5, <2>1, <2>2, <2>3, StackedStep
<1> QED
  BY <1>2, <1>5, <1>6, <1>7 DEF Costed, Costs

LEMMA CloseCosted == ASSUME IInv, Costed, Close PROVE Costed'
<1>1. /\ Typed /\ Table(dedup) /\ size \in Nat /\ stack \in Seq(Frame)
      /\ stack # << >> /\ ~HasItem /\ Known(Top.value) = In(dedup, Top.value)
  BY TheTable DEF Close
<1>2. PICK C : Book(C, dedup, noPointers) /\ Stacked(C, dedup, noPointers, stack, size)
  BY DEF Costed, Costs
<1>3. PICK n \in Nat \ {0} : n = Len(stack) /\ Top = stack[n] /\ n \in 1 .. n
  BY <1>1, TopOf
<1>4. /\ stack[n].value \in Values /\ stack[n].offset \in Nat /\ stack[n].next \in Nat
      /\ Len(stack[n].value.items) \in Nat
  BY <1>1, <1>3, FrameOf, Items
<1>5. stack[n].next > Len(stack[n].value.items)
  <2>1. ~(stack[n].next <= Len(stack[n].value.items))
    BY <1>1, <1>3 DEF HasItem
  <2> QED
    BY SMT, <1>4, <2>1
<1>6. PICK t \in Seq(Frame) : /\ t = stack' /\ Len(t) = n - 1
                              /\ \A i \in 1 .. n - 1 : t[i] = stack[i]
  BY <1>1, <1>3, TopOf DEF Close
<1>7. UNCHANGED <<size, noPointers>>
  BY DEF Close
<1>8. CASE In(dedup, stack[n].value)
  <2>1. dedup' = dedup
    BY <1>1, <1>3, <1>8 DEF Close, Remember
  <2>2. Stacked(C, dedup, noPointers, t, size)
    BY <1>1, <1>2, <1>3, <1>5, <1>6, <1>8, StackedPopKnown
  <2> QED
    BY <1>2, <1>6, <1>7, <2>1, <2>2 DEF Costed, Costs
<1>9. CASE ~In(dedup, stack[n].value)
  <2>1. PICK e, f : Enters(dedup, stack[n], size, e, f) /\ dedup' = f
    <3>1. size - stack[n].offset \in Int
      BY <1>1, <1>4
    <3>2. PICK e \in [value : Values, offset : Nat, len : Int] :
              e = [value |-> Top.value, offset |-> Top.offset, len |-> size - Top.offset]
      BY <1>3, <1>4, <3>1
    <3>3. Enters(dedup, stack[n], size, e, dedup \cup {e})
      BY <1>3, <3>2 DEF Enters
    <3>4. dedup' = dedup \cup {e}
      BY <1>1, <1>3, <1>9, <3>2 DEF Close, Remember
    <3> QED
      BY <3>3, <3>4
  <2>2. Costs(f, noPointers, t, size)
    BY <1>1, <1>2, <1>3, <1>5, <1>6, <1>9, <2>1, StackedPopNew
  <2> QED
    BY <1>6, <1>7, <2>1, <2>2 DEF Costed, Costs
<1> QED
  BY <1>8, <1>9

-----------------------------------------------------------------------------
LEMMA StepCosted == IInv /\ Costed /\ [Next]_vars => Costed'
<1> SUFFICES ASSUME IInv, Costed, [Next]_vars PROVE Costed'
  OBVIOUS
<1>1. CASE UNCHANGED vars
  BY <1>1 DEF vars, Costed
<1>2. ASSUME NEW v \in Pushed, PushKnown(v) PROVE Costed'
  BY <1>2 DEF PushKnown, Costed
<1>3. ASSUME NEW v \in Pushed, PushNew(v) PROVE Costed'
  <2>1. v \in Values /\ << >> \in Seq(Frame) /\ stack = << >> /\ ~PointerWins(v)
    BY <1>3, DataSectionAssumption DEF PushNew, CanPush, PointerWins
  <2>2. Open(v, << >>) /\ UNCHANGED <<dedup, noPointers>>
    BY <1>3 DEF PushNew
  <2> QED
    BY <2>1, <2>2, OpenCosted
<1>4. CASE EmitPointer
  BY <1>4, EmitPointerCosted
<1>5. CASE EmitInline
  <2>1. HasItem /\ ~PointerWins(Item) /\ Open(Item, Advanced) /\ UNCHANGED <<dedup, noPointers>>
    BY <1>5 DEF EmitInline
  <2>2. Item \in Values /\ Advanced \in Seq(Frame)
    BY <2>1, TheTable, ItemIsValue, TopOf DEF HasItem
  <2> QED
    BY <2>1, <2>2, OpenCosted
<1>6. CASE Close
  BY <1>6, CloseCosted
<1> QED
  BY <1>1, <1>2, <1>3, <1>4, <1>5, <1>6 DEF Next

(***************************************************************************)
(* The length by which emit_inline chooses between a pointer and a copy is *)
(* what the copy costs, whatever has become known in between: the choice   *)
(* is never made on a stale number.                                        *)
(***************************************************************************)
THEOREM CopiesPriced == Spec => []CopiesCostTheSame
<1>1. IInv /\ Costed => CopiesCostTheSame
  <2> SUFFICES ASSUME IInv, Costed, stack # << >>, ~HasItem, Known(Top.value)
               PROVE  size - Top.offset = Entry(Top.value).len
    BY DEF CopiesCostTheSame
  <2>1. /\ Typed /\ Table(dedup) /\ size \in Nat /\ stack \in Seq(Frame)
        /\ In(dedup, Top.value)
    BY TheTable
  <2>2. PICK C : Book(C, dedup, noPointers) /\ Stacked(C, dedup, noPointers, stack, size)
    BY DEF Costed, Costs
  <2>3. PICK n \in Nat \ {0} : n = Len(stack) /\ Top = stack[n] /\ n \in 1 .. n
    BY <2>1, TopOf
  <2>4. stack[n].next > Len(stack[n].value.items)
    <3>1. stack[n].next \in Nat /\ Len(stack[n].value.items) \in Nat
      BY <2>1, <2>3, FrameOf, Items
    <3>2. ~(stack[n].next <= Len(stack[n].value.items))
      BY <2>3 DEF HasItem
    <3> QED
      BY SMT, <3>1, <3>2
  <2>5. Sound(C, dedup, noPointers, stack[n].value, stack[n].offset,
              Len(stack[n].value.items) + 1, size - stack[n].offset)
    BY <2>1, <2>2, <2>3, <2>4, StackedDone
  <2>6. size - stack[n].offset = Of(dedup, stack[n].value).len
    BY <2>1, <2>2, <2>3, <2>5, CopyCost
  <2> QED
    BY <2>3, <2>6 DEF Entry, Of
<1>2. Init => IInv /\ Costed
  BY InitIInv, InitCosted
<1>3. IInv /\ Costed /\ [Next]_vars => (IInv /\ Costed)'
  BY StepIInv, StepCosted
<1> QED
  BY <1>1, <1>2, <1>3, PTL DEF Spec
-----------------------------------------------------------------------------

-----------------------------------------------------------------------------
(***************************************************************************)
(* The reader, one level and one value at a time.                          *)
(***************************************************************************)

(* What a reader makes of n values in a row. *)
Result == [values : Seq(Values \cup {NoValue}), end : Nat]

Readers == [Nat -> [Nat -> Result]]

LEMMA TooDeepReads ==
    TooDeep \in Readers /\ \A o \in Nat : TooDeep[o][0] = [values |-> << >>, end |-> o]
<1>1. ASSUME NEW o \in Nat, NEW n \in Nat
      PROVE  [values |-> [k \in 1 .. n |-> NoValue], end |-> o] \in Result
  <2>1. [k \in 1 .. n |-> NoValue] \in Seq(Values \cup {NoValue})
    OBVIOUS
  <2> QED
    BY <2>1 DEF Result
<1>2. [k \in 1 .. 0 |-> NoValue] = << >>
  OBVIOUS
<1> QED
  BY <1>1, <1>2 DEF TooDeep, Readers

LEMMA TokenFound ==
    ASSUME NEW s \in Seq(Token), NEW o \in Starts(s)
    PROVE  /\ TokenAt(s, o) \in Token /\ TokenAt(s, o).at = o /\ o \in Nat
           /\ TokenAt(s, o).len \in Nat /\ TokenAt(s, o).count \in Nat
<1>1. \E k \in DOMAIN s : s[k].at = o
  BY DEF Starts
<1>2. PICK k \in DOMAIN s : TokenAt(s, o) = s[k] /\ s[k].at = o
  BY <1>1 DEF TokenAt
<1>3. TokenAt(s, o) \in Token /\ TokenAt(s, o).at = o
  BY <1>2
<1> QED
  BY <1>3 DEF Token

LEMMA EndIsNat ==
    ASSUME NEW s \in Seq(Token), NEW inner \in Readers, NEW o \in Nat
    PROVE  EndAt(s, inner, o) \in Nat
<1>1. CASE o \notin Starts(s)
  BY <1>1 DEF EndAt
<1>2. CASE o \in Starts(s)
  <2>1. PICK t \in Token : t = TokenAt(s, o) /\ t.at = o /\ t.len \in Nat /\ t.count \in Nat
    BY <1>2, TokenFound
  <2>2. inner[t.at + t.len][t.count] \in Result
    BY <2>1 DEF Readers
  <2>3. ItemsOf(inner, t).end \in Nat
    BY <2>2 DEF ItemsOf, Result
  <2> QED
    BY <1>2, <2>1, <2>3 DEF EndAt
<1> QED
  BY <1>1, <1>2

LEMMA ValueOrNoValue ==
    ASSUME NEW s, NEW inner, NEW o
    PROVE  ValueAt(s, inner, o) \in Values \cup {NoValue}
BY DEF ValueAt

(* One more value in a row. *)
More(s, inner, r) ==
    [values |-> Append(r.values, ValueAt(s, inner, r.end)), end |-> EndAt(s, inner, r.end)]

(* R reads rows of values of s, whose items inner reads. *)
RowOf(s, inner, R) ==
    /\ R \in Readers
    /\ \A o \in Nat : /\ R[o][0] = [values |-> << >>, end |-> o]
                      /\ \A n \in Nat : R[o][n + 1] = More(s, inner, R[o][n])

LEMMA MoreIsResult ==
    ASSUME NEW s \in Seq(Token), NEW inner \in Readers, NEW r \in Result
    PROVE  More(s, inner, r) \in Result
<1>1. r.values \in Seq(Values \cup {NoValue}) /\ r.end \in Nat
  BY DEF Result
<1>2. Append(r.values, ValueAt(s, inner, r.end)) \in Seq(Values \cup {NoValue})
  BY <1>1, ValueOrNoValue
<1>3. EndAt(s, inner, r.end) \in Nat
  BY <1>1, EndIsNat
<1> QED
  BY <1>2, <1>3 DEF More, Result

LEMMA RowReads ==
    ASSUME NEW s \in Seq(Token), NEW inner \in Readers
    PROVE  RowOf(s, inner, Row(s, inner))
<1>1. ASSUME NEW o \in Nat
      PROVE  /\ Row(s, inner)[o] \in [Nat -> Result]
             /\ Row(s, inner)[o][0] = [values |-> << >>, end |-> o]
             /\ \A n \in Nat : Row(s, inner)[o][n + 1] = More(s, inner, Row(s, inner)[o][n])
  <2> DEFINE c == [values |-> << >>, end |-> o]
             h == [n \in Nat |-> [r \in Result |-> More(s, inner, r)]]
             Eq(f) == f = [n \in Nat |-> IF n = 0 THEN c ELSE More(s, inner, f[n - 1])]
  <2>1. c \in Result
    BY DEF Result
  <2>2. h \in [Nat -> [Result -> Result]]
    BY MoreIsResult
  <2>3. Row(s, inner)[o] = CHOOSE f : Eq(f)
    BY DEF Row, More
  <2> HIDE DEF c
  <2>4. PICK f : Iterates(Result, c, h, f)
    <3> HIDE DEF h
    <3> QED
      BY <2>1, <2>2, Recursion
  <2>5. f \in [Nat -> Result] /\ f[0] = c /\ \A n \in Nat : f[n + 1] = More(s, inner, f[n])
    BY <2>4 DEF Iterates
  <2> HIDE DEF h
  <2>6. Eq(f)
    <3>1. \A n \in Nat : n # 0 => n - 1 \in Nat /\ f[n] = More(s, inner, f[n - 1])
      BY <2>5
    <3> QED
      BY <2>5, <3>1
  <2>7. Eq(Row(s, inner)[o])
    <3> HIDE DEF Eq
    <3> QED
      BY Zenon, <2>3, <2>6
  <2>8. PICK g : g = Row(s, inner)[o]
    OBVIOUS
  <2>9. g = [n \in Nat |-> IF n = 0 THEN c ELSE More(s, inner, g[n - 1])]
    BY <2>7, <2>8
  <2>10. g[0] = c /\ \A n \in Nat : g[n + 1] = More(s, inner, g[n])
    <3>1. \A n \in Nat : n + 1 \in Nat /\ n + 1 # 0 /\ (n + 1) - 1 = n
      OBVIOUS
    <3> QED
      BY <2>9, <3>1
  <2>11. \A n \in Nat : g[n] \in Result
    <3> DEFINE S == {n \in Nat : g[n] \in Result}
    <3>1. 0 \in S
      BY <2>1, <2>10
    <3>2. ASSUME NEW n \in Nat, n \in S PROVE n + 1 \in S
      <4>1. PICK r \in Result : r = g[n]
        BY <3>2
      <4>2. More(s, inner, r) \in Result
        BY MoreIsResult
      <4>3. g[n + 1] = More(s, inner, g[n])
        BY <2>10
      <4>4. g[n + 1] \in Result
        BY <4>1, <4>2, <4>3
      <4> QED
        BY <4>4
    <3> HIDE DEF S
    <3>3. \A n \in Nat : n \in S
      BY <3>1, <3>2, Induction
    <3> QED
      BY <3>3 DEF S
  <2>12. g \in [Nat -> Result]
    BY <2>9, <2>11
  <2> QED
    BY <2>8, <2>10, <2>12 DEF c
<1>2. Row(s, inner) \in Readers
  <2> DEFINE Read(o) == LET f[n \in Nat] ==
                              IF n = 0 THEN [values |-> << >>, end |-> o]
                              ELSE LET before == f[n - 1]
                                   IN  [values |-> Append(before.values,
                                                          ValueAt(s, inner, before.end)),
                                        end    |-> EndAt(s, inner, before.end)]
                        IN  f
  <2>1. Row(s, inner) = [o \in Nat |-> Row(s, inner)[o]]
    <3>1. Row(s, inner) = [o \in Nat |-> Read(o)]
      BY Zenon DEF Row
    <3> HIDE DEF Read
    <3> QED
      BY <3>1
  <2> QED
    BY <1>1, <2>1 DEF Readers
<1> QED
  BY <1>1, <1>2 DEF RowOf
(* The readers of s, depth by depth. *)
LEMMA ReaderReads ==
    ASSUME NEW s \in Seq(Token)
    PROVE  /\ Reader(s) \in [Nat -> Readers] /\ Reader(s)[0] = TooDeep
           /\ \A d \in Nat : RowOf(s, Reader(s)[d], Reader(s)[d + 1])
<1> DEFINE h == [d \in Nat |-> [R \in Readers |-> Row(s, R)]]
           Eq(f) == f = [d \in Nat |-> IF d = 0 THEN TooDeep ELSE Row(s, f[d - 1])]
<1>1. \A R \in Readers : Row(s, R) \in Readers
  BY RowReads DEF RowOf
<1>2. h \in [Nat -> [Readers -> Readers]] /\ TooDeep \in Readers
  BY <1>1, TooDeepReads
<1>3. Reader(s) = CHOOSE f : Eq(f)
  BY DEF Reader
<1>4. PICK f : Iterates(Readers, TooDeep, h, f)
  <2> HIDE DEF h
  <2> QED
    BY <1>2, Recursion
<1>5. f \in [Nat -> Readers] /\ f[0] = TooDeep /\ \A d \in Nat : f[d + 1] = Row(s, f[d])
  BY <1>4 DEF Iterates
<1> HIDE DEF h
<1>6. Eq(f)
  <2>1. \A d \in Nat : d # 0 => d - 1 \in Nat /\ f[d] = Row(s, f[d - 1])
    BY <1>5
  <2> QED
    BY <1>5, <2>1
<1>7. Eq(Reader(s))
  <2> HIDE DEF Eq
  <2> QED
    BY Zenon, <1>3, <1>6
<1>8. PICK g : g = Reader(s)
  OBVIOUS
<1>9. g = [d \in Nat |-> IF d = 0 THEN TooDeep ELSE Row(s, g[d - 1])]
  BY <1>7, <1>8
<1>10. g[0] = TooDeep /\ \A d \in Nat : g[d + 1] = Row(s, g[d])
  <2>1. \A d \in Nat : d + 1 \in Nat /\ d + 1 # 0 /\ (d + 1) - 1 = d
    OBVIOUS
  <2> QED
    BY <1>9, <2>1
<1>11. \A d \in Nat : g[d] \in Readers
  <2> DEFINE S == {d \in Nat : g[d] \in Readers}
  <2>1. 0 \in S
    BY <1>10, TooDeepReads
  <2>2. ASSUME NEW d \in Nat, d \in S PROVE d + 1 \in S
    <3>1. PICK R \in Readers : R = g[d]
      BY <2>2
    <3>2. Row(s, R) \in Readers
      BY <1>1
    <3>3. g[d + 1] = Row(s, g[d])
      BY <1>10
    <3>4. g[d + 1] \in Readers
      BY <3>1, <3>2, <3>3
    <3> QED
      BY <3>4
  <2> HIDE DEF S
  <2>3. \A d \in Nat : d \in S
    BY <2>1, <2>2, Induction
  <2> QED
    BY <2>3 DEF S
<1>12. g \in [Nat -> Readers]
  BY <1>9, <1>11
<1>13. \A d \in Nat : RowOf(s, g[d], g[d + 1])
  BY <1>10, <1>11, RowReads
<1> QED
  BY <1>8, <1>10, <1>12, <1>13
-----------------------------------------------------------------------------
(***************************************************************************)
(* A reader is not disturbed by what is written behind what it reads.      *)
(***************************************************************************)

(* No two tokens begin at one offset. *)
Tidy(s) ==
    /\ s \in Seq(Token)
    /\ \A j, k \in DOMAIN s : s[j].at = s[k].at => j = k

(* u is s, or s with more behind it. *)
Extends(s, u) ==
    /\ Tidy(s) /\ Tidy(u)
    /\ \A k \in DOMAIN s : k \in DOMAIN u /\ u[k] = s[k]

LEMMA TokenIs ==
    ASSUME NEW s, Tidy(s), NEW k \in DOMAIN s
    PROVE  /\ s[k].at \in Starts(s) /\ TokenAt(s, s[k].at) = s[k]
           /\ s[k].to = NoTarget => s[k].at \in HeaderStarts(s)
<1>1. PICK j \in DOMAIN s : TokenAt(s, s[k].at) = s[j] /\ s[j].at = s[k].at
  BY DEF TokenAt
<1>2. j = k
  BY <1>1 DEF Tidy
<1> QED
  BY <1>1, <1>2 DEF Starts, HeaderStarts

LEMMA TokensStay ==
    ASSUME NEW s, NEW u, Extends(s, u)
    PROVE  /\ \A o \in Starts(s) : o \in Starts(u) /\ TokenAt(u, o) = TokenAt(s, o)
           /\ HeaderStarts(s) \subseteq HeaderStarts(u)
           /\ HeaderStarts(s) \subseteq Starts(s)
           /\ s \in Seq(Token) /\ u \in Seq(Token)
<1>1. ASSUME NEW o \in Starts(s) PROVE o \in Starts(u) /\ TokenAt(u, o) = TokenAt(s, o)
  <2>1. PICK k \in DOMAIN s : s[k].at = o
    BY DEF Starts
  <2>2. TokenAt(s, o) = s[k] /\ k \in DOMAIN u /\ u[k] = s[k] /\ Tidy(u)
    BY <2>1, TokenIs DEF Extends
  <2>3. TokenAt(u, u[k].at) = u[k] /\ u[k].at \in Starts(u)
    BY <2>2, TokenIs
  <2> QED
    BY <2>1, <2>2, <2>3
<1>2. HeaderStarts(s) \subseteq HeaderStarts(u)
  BY DEF Extends, HeaderStarts
<1> QED
  BY <1>1, <1>2 DEF HeaderStarts, Starts, Extends, Tidy

LEMMA NoValueIsNone ==
    /\ NoValue \notin Values
    /\ \A v \in Values : v.items \in Seq(Values) /\ v.head \in Nat \ {0}
BY DataSectionAssumption DEF NoValue

LEMMA AllValues ==
    ASSUME NEW vs \in Seq(Values \cup {NoValue}), NEW x, Append(vs, x) \in Seq(Values)
    PROVE  vs \in Seq(Values) /\ x \in Values
<1>1. PICK w \in Seq(Values) : w = Append(vs, x)
  OBVIOUS
<1>2. /\ Len(vs) \in Nat /\ Len(w) = Len(vs) + 1 /\ w[Len(vs) + 1] = x
      /\ \A k \in 1 .. Len(vs) : w[k] = vs[k]
  BY <1>1, AppendProperties
<1>3. \A k \in 1 .. Len(vs) + 1 : w[k] \in Values
  BY <1>2
<1>4. x \in Values /\ \A k \in 1 .. Len(vs) : vs[k] \in Values
  BY <1>2, <1>3
<1> QED
  BY <1>4

(* Where R reads values only, T reads the same. *)
Agree(R, T) ==
    \A o, n \in Nat : R[o][n].values \in Seq(Values) => T[o][n] = R[o][n]

LEMMA AtStays ==
    ASSUME NEW s, NEW u, Extends(s, u),
           NEW R \in Readers, NEW T \in Readers, Agree(R, T),
           NEW o, ValueAt(s, R, o) \in Values
    PROVE  ValueAt(u, T, o) = ValueAt(s, R, o) /\ EndAt(u, T, o) = EndAt(s, R, o)
<1>1. o \in Starts(s) /\ Follow(s, o) \in HeaderStarts(s)
  BY NoValueIsNone DEF ValueAt
<1>2. /\ o \in Starts(u) /\ TokenAt(u, o) = TokenAt(s, o) /\ Follow(u, o) = Follow(s, o)
      /\ Follow(s, o) \in Starts(s)
  BY <1>1, TokensStay DEF Follow
<1>3. PICK h \in Token : h = TokenAt(s, Follow(s, o))
  BY <1>2, TokensStay, TokenFound
<1>4. /\ Follow(u, o) \in HeaderStarts(u) /\ TokenAt(u, Follow(u, o)) = h
      /\ h.at + h.len \in Nat /\ h.count \in Nat
  <2>1. Follow(u, o) \in HeaderStarts(u)
    BY <1>1, <1>2, TokensStay
  <2>2. TokenAt(u, Follow(u, o)) = h
    BY <1>2, <1>3, TokensStay
  <2>3. h.at \in Nat /\ h.len \in Nat /\ h.count \in Nat
    BY DEF Token
  <2> QED
    BY <2>1, <2>2, <2>3
<1> DEFINE v == [name |-> h.name, head |-> h.len, items |-> ItemsOf(R, h).values]
<1>5. v \in Values /\ ValueAt(s, R, o) = v
  BY <1>1, <1>3, NoValueIsNone DEF ValueAt
<1>6. v.items = ItemsOf(R, h).values
  OBVIOUS
<1>7. ItemsOf(R, h).values \in Seq(Values)
  <2> HIDE DEF v
  <2> QED
    BY <1>5, <1>6, NoValueIsNone
<1>8. ItemsOf(T, h) = ItemsOf(R, h)
  BY <1>4, <1>7 DEF Agree, ItemsOf
<1>9. ValueAt(u, T, o) = v
  BY <1>2, <1>4, <1>5, <1>8 DEF ValueAt
<1>10. EndAt(u, T, o) = EndAt(s, R, o)
  <2>1. CASE TokenAt(s, o).to # NoTarget
    BY <1>1, <1>2, <2>1 DEF EndAt
  <2>2. CASE TokenAt(s, o).to = NoTarget
    <3>1. TokenAt(s, o) = h
      BY <1>3, <2>2 DEF Follow
    <3> QED
      BY <1>1, <1>2, <1>8, <2>2, <3>1 DEF EndAt
  <2> QED
    BY <2>1, <2>2
<1> QED
  BY <1>5, <1>9, <1>10

LEMMA RowsAgree ==
    ASSUME NEW s, NEW u, Extends(s, u),
           NEW R \in Readers, NEW T \in Readers, Agree(R, T),
           NEW P, NEW Q, RowOf(s, R, P), RowOf(u, T, Q)
    PROVE  Agree(P, Q)
<1> DEFINE S == {n \in Nat : \A o \in Nat : P[o][n].values \in Seq(Values) => Q[o][n] = P[o][n]}
<1>1. 0 \in S
  BY DEF RowOf
<1>2. ASSUME NEW n \in Nat, n \in S PROVE n + 1 \in S
  <2>1. ASSUME NEW o \in Nat, P[o][n + 1].values \in Seq(Values)
        PROVE  Q[o][n + 1] = P[o][n + 1]
    <3>1. PICK r \in Result : r = P[o][n]
      BY DEF RowOf, Readers
    <3>2. P[o][n + 1] = More(s, R, r) /\ Q[o][n + 1] = More(u, T, Q[o][n])
      BY <3>1 DEF RowOf
    <3>3. Append(r.values, ValueAt(s, R, r.end)) \in Seq(Values)
      BY <2>1, <3>2 DEF More
    <3>4. r.values \in Seq(Values) /\ ValueAt(s, R, r.end) \in Values
      BY <3>3, AllValues DEF Result
    <3>5. Q[o][n] = r
      BY <1>2, <3>1, <3>4
    <3>6. ValueAt(u, T, r.end) = ValueAt(s, R, r.end) /\ EndAt(u, T, r.end) = EndAt(s, R, r.end)
      BY <3>4, AtStays
    <3> QED
      BY <3>2, <3>5, <3>6 DEF More
  <2> QED
    BY <2>1
<1> HIDE DEF S
<1>3. \A n \in Nat : n \in S
  BY <1>1, <1>2, Induction
<1> QED
  BY <1>3 DEF S, Agree

LEMMA ReadersAgree ==
    ASSUME NEW s, NEW u, Extends(s, u)
    PROVE  \A d \in Nat : Agree(Reader(s)[d], Reader(u)[d])
<1> DEFINE S == {d \in Nat : Agree(Reader(s)[d], Reader(u)[d])}
<1>1. /\ s \in Seq(Token) /\ u \in Seq(Token)
      /\ Reader(s) \in [Nat -> Readers] /\ Reader(u) \in [Nat -> Readers]
      /\ Reader(s)[0] = TooDeep /\ Reader(u)[0] = TooDeep
  BY TokensStay, ReaderReads
<1>2. 0 \in S
  BY <1>1 DEF Agree
<1>3. ASSUME NEW d \in Nat, d \in S PROVE d + 1 \in S
  <2>1. RowOf(s, Reader(s)[d], Reader(s)[d + 1]) /\ RowOf(u, Reader(u)[d], Reader(u)[d + 1])
    BY <1>1, ReaderReads
  <2>2. Reader(s)[d] \in Readers /\ Reader(u)[d] \in Readers
    BY <1>1
  <2>3. Agree(Reader(s)[d], Reader(u)[d])
    BY <1>3
  <2>4. Agree(Reader(s)[d + 1], Reader(u)[d + 1])
    BY <2>1, <2>2, <2>3, RowsAgree
  <2> QED
    BY <2>4
<1> HIDE DEF S
<1>4. \A d \in Nat : d \in S
  BY <1>2, <1>3, Induction
<1> QED
  BY <1>4 DEF S
-----------------------------------------------------------------------------
(***************************************************************************)
(* What a section spells, at an offset.                                    *)
(***************************************************************************)
HeaderFor(v, o) ==
    [at |-> o, name |-> v.name, count |-> Len(v.items), to |-> NoTarget, len |-> v.head]

(* Every reader that goes deep enough for v reads v from o on, and is then at e. *)
Spells(s, v, o, e) ==
    \A d \in Nat : Height[v] <= d + 1 =>
        ValueAt(s, Reader(s)[d], o) = v /\ EndAt(s, Reader(s)[d], o) = e

First(v, r) == [k \in 1 .. r |-> v.items[k]]

(* And the first r items of v from o to e. *)
SpellsItems(s, v, r, o, e) ==
    \A d \in Nat : Height[v] <= d + 1 =>
        Reader(s)[d][o][r] = [values |-> First(v, r), end |-> e]

LEMMA Heights ==
    ASSUME NEW v \in Values
    PROVE  /\ Height[v] \in Nat /\ Height[v] >= 1 /\ Height[v] <= DepthLimit
           /\ DepthLimit \in Nat
           /\ \A k \in 1 .. Len(v.items) : v.items[k] \in Values /\ Height[v.items[k]] < Height[v]
           /\ v = [name |-> v.name, head |-> v.head, items |-> v.items]
           /\ v.items \in Seq(Values) /\ Len(v.items) \in Nat
<1>1. v.items \in Seq(Values)
  BY DataSectionAssumption
<1>2. \A k \in 1 .. Len(v.items) : v.items[k] \in Values
  BY <1>1
<1>3. Height[v] \in 1 .. DepthLimit /\ DepthLimit \in Nat
  BY DataReaderAssumption
<1> QED
  BY <1>1, <1>2, <1>3, DataReaderAssumption

LEMMA FirstItems ==
    ASSUME NEW v \in Values, NEW r \in 0 .. Len(v.items)
    PROVE  /\ First(v, r) \in Seq(Values)
           /\ r = 0 => First(v, r) = << >>
           /\ r = Len(v.items) => First(v, r) = v.items
           /\ r < Len(v.items) => First(v, r + 1) = Append(First(v, r), v.items[r + 1])
<1>1. v.items \in Seq(Values) /\ Len(v.items) \in Nat
  BY Heights
<1>2. \A k \in 1 .. r : v.items[k] \in Values
  BY <1>1
<1>3. First(v, r) \in Seq(Values) /\ Len(First(v, r)) = r
  BY <1>1, <1>2 DEF First
<1>4. r = 0 => First(v, r) = << >>
  BY DEF First
<1>5. ASSUME r = Len(v.items) PROVE First(v, r) = v.items
  BY <1>1, <1>5 DEF First
<1>6. ASSUME r < Len(v.items) PROVE First(v, r + 1) = Append(First(v, r), v.items[r + 1])
  <2>1. v.items[r + 1] \in Values
    BY <1>1, <1>6
  <2> QED
    BY <1>1, <1>2, <1>3, <2>1 DEF First
<1> QED
  BY <1>3, <1>4, <1>5, <1>6

LEMMA SpellsNone ==
    ASSUME NEW s \in Seq(Token), NEW v \in Values, NEW o \in Nat
    PROVE  SpellsItems(s, v, 0, o, o)
<1>1. First(v, 0) = << >>
  BY DEF First
<1>2. ASSUME NEW d \in Nat PROVE Reader(s)[d][o][0] = [values |-> << >>, end |-> o]
  <2>1. CASE d = 0
    BY <2>1, ReaderReads, TooDeepReads
  <2>2. CASE d # 0
    <3>1. PICK i \in Nat : d = i + 1
      <4>1. d - 1 \in Nat /\ d = (d - 1) + 1
        BY <2>2
      <4> QED
        BY <4>1
    <3>2. RowOf(s, Reader(s)[i], Reader(s)[i + 1])
      BY ReaderReads
    <3> QED
      BY <3>1, <3>2 DEF RowOf
  <2> QED
    BY <2>1, <2>2
<1> QED
  BY <1>1, <1>2 DEF SpellsItems

LEMMA SpellsMore ==
    ASSUME NEW s \in Seq(Token), NEW v \in Values, NEW r \in Nat, r < Len(v.items),
           NEW o \in Nat, NEW m, NEW e, SpellsItems(s, v, r, o, m), Spells(s, v.items[r + 1], m, e)
    PROVE  SpellsItems(s, v, r + 1, o, e)
<1>1. v.items[r + 1] \in Values /\ Height[v.items[r + 1]] < Height[v] /\ Height[v] \in Nat
  <2>1. r + 1 \in 1 .. Len(v.items)
    BY Heights
  <2> QED
    BY <2>1, Heights
<1>2. PICK w \in Values : w = v.items[r + 1]
  BY <1>1
<1>3. PICK x \in Nat, y \in Nat : x = Height[w] /\ y = Height[v] /\ x >= 1 /\ x < y
  BY <1>1, <1>2, Heights
<1>4. First(v, r + 1) = Append(First(v, r), w)
  <2>1. r \in 0 .. Len(v.items)
    BY Heights
  <2> QED
    BY <1>2, <2>1, FirstItems
<1>5. ASSUME NEW d \in Nat, Height[v] <= d + 1
      PROVE  Reader(s)[d][o][r + 1] = [values |-> First(v, r + 1), end |-> e]
  <2>1. PICK i \in Nat : d = i + 1
    <3>1. y <= d + 1
      BY <1>3, <1>5
    <3>2. d - 1 \in Nat /\ d = (d - 1) + 1
      BY SMT, <1>3, <3>1
    <3> QED
      BY <3>2
  <2>2. Height[w] <= i + 1
    <3>1. y <= d + 1
      BY <1>3, <1>5
    <3>2. x <= i + 1
      BY <1>3, <2>1, <3>1
    <3> QED
      BY <1>3, <3>2
  <2>3. Reader(s)[d][o][r + 1] = More(s, Reader(s)[i], Reader(s)[d][o][r])
    <3>1. RowOf(s, Reader(s)[i], Reader(s)[i + 1])
      BY ReaderReads
    <3>2. Reader(s)[i + 1][o][r + 1] = More(s, Reader(s)[i], Reader(s)[i + 1][o][r])
      BY <3>1 DEF RowOf
    <3> QED
      BY <2>1, <3>2
  <2>4. Reader(s)[d][o][r] = [values |-> First(v, r), end |-> m]
    BY <1>5 DEF SpellsItems
  <2>5. ValueAt(s, Reader(s)[i], m) = w /\ EndAt(s, Reader(s)[i], m) = e
    BY <1>2, <2>2 DEF Spells
  <2>6. PICK t : t = Reader(s)[d][o][r] /\ t.values = First(v, r) /\ t.end = m
    BY <2>4
  <2>7. More(s, Reader(s)[i], t) = [values |-> Append(First(v, r), w), end |-> e]
    BY <2>5, <2>6 DEF More
  <2> QED
    BY <1>4, <2>3, <2>6, <2>7
<1> QED
  BY <1>5 DEF SpellsItems

LEMMA SpellsValue ==
    ASSUME NEW s, Tidy(s), NEW v \in Values, NEW o \in Nat, NEW k \in DOMAIN s,
           s[k] = HeaderFor(v, o), NEW e, SpellsItems(s, v, Len(v.items), o + v.head, e)
    PROVE  Spells(s, v, o, e)
<1> DEFINE h == HeaderFor(v, o)
<1>1. /\ h.at = o /\ h.name = v.name /\ h.count = Len(v.items) /\ h.to = NoTarget
      /\ h.len = v.head
  BY DEF HeaderFor
<1> HIDE DEF h
<1>2. /\ o \in Starts(s) /\ TokenAt(s, o) = h /\ o \in HeaderStarts(s) /\ Follow(s, o) = o
  BY <1>1, TokenIs DEF Follow, h
<1>3. First(v, Len(v.items)) = v.items
  <2>1. Len(v.items) \in 0 .. Len(v.items)
    BY Heights
  <2> QED
    BY <2>1, FirstItems
<1>4. ASSUME NEW d \in Nat, Height[v] <= d + 1
      PROVE  ValueAt(s, Reader(s)[d], o) = v /\ EndAt(s, Reader(s)[d], o) = e
  <2>1. ItemsOf(Reader(s)[d], h) = [values |-> v.items, end |-> e]
    BY <1>1, <1>3, <1>4 DEF SpellsItems, ItemsOf
  <2>2. v = [name |-> h.name, head |-> h.len, items |-> ItemsOf(Reader(s)[d], h).values]
    BY <1>1, <2>1, Heights
  <2>3. ValueAt(s, Reader(s)[d], o) = v
    BY <1>2, <2>2 DEF ValueAt
  <2>4. EndAt(s, Reader(s)[d], o) = e
    BY <1>1, <1>2, <2>1 DEF EndAt
  <2> QED
    BY <2>3, <2>4
<1> QED
  BY <1>4 DEF Spells

LEMMA SpellsPointer ==
    ASSUME NEW s, Tidy(s), NEW v, NEW k \in DOMAIN s, s[k].to # NoTarget,
           NEW j \in DOMAIN s, s[j].to = NoTarget, s[k].to = s[j].at,
           NEW e, Spells(s, v, s[j].at, e)
    PROVE  Spells(s, v, s[k].at, s[k].at + s[k].len)
<1>1. /\ s[k].at \in Starts(s) /\ TokenAt(s, s[k].at) = s[k]
      /\ s[j].at \in Starts(s) /\ TokenAt(s, s[j].at) = s[j]
      /\ Follow(s, s[k].at) = s[j].at /\ Follow(s, s[j].at) = s[j].at
  BY TokenIs DEF Follow
<1>2. ASSUME NEW d \in Nat
      PROVE  /\ ValueAt(s, Reader(s)[d], s[k].at) = ValueAt(s, Reader(s)[d], s[j].at)
             /\ EndAt(s, Reader(s)[d], s[k].at) = s[k].at + s[k].len
  BY <1>1 DEF ValueAt, EndAt
<1> QED
  BY <1>2 DEF Spells

LEMMA SpellsStays ==
    ASSUME NEW s, NEW u, Extends(s, u), NEW v \in Values, NEW o, NEW e, Spells(s, v, o, e)
    PROVE  Spells(u, v, o, e)
<1>1. ASSUME NEW d \in Nat, Height[v] <= d + 1
      PROVE  ValueAt(u, Reader(u)[d], o) = v /\ EndAt(u, Reader(u)[d], o) = e
  <2>1. ValueAt(s, Reader(s)[d], o) = v /\ EndAt(s, Reader(s)[d], o) = e
    BY <1>1 DEF Spells
  <2>2. /\ Reader(s)[d] \in Readers /\ Reader(u)[d] \in Readers
        /\ Agree(Reader(s)[d], Reader(u)[d])
    BY TokensStay, ReaderReads, ReadersAgree
  <2>3. ValueAt(s, Reader(s)[d], o) \in Values
    BY <2>1
  <2> QED
    BY <2>1, <2>2, <2>3, AtStays
<1> QED
  BY <1>1 DEF Spells

LEMMA SpellsItemsStays ==
    ASSUME NEW s, NEW u, Extends(s, u), NEW v \in Values, NEW r \in 0 .. Len(v.items),
           NEW o \in Nat, NEW e, SpellsItems(s, v, r, o, e)
    PROVE  SpellsItems(u, v, r, o, e)
<1>1. First(v, r) \in Seq(Values) /\ r \in Nat
  BY FirstItems, Heights
<1>2. ASSUME NEW d \in Nat, Height[v] <= d + 1
      PROVE  Reader(u)[d][o][r] = [values |-> First(v, r), end |-> e]
  <2>1. Reader(s)[d][o][r] = [values |-> First(v, r), end |-> e]
    BY <1>2 DEF SpellsItems
  <2>2. Agree(Reader(s)[d], Reader(u)[d])
    BY ReadersAgree
  <2>3. Reader(s)[d][o][r].values \in Seq(Values)
    BY <1>1, <2>1
  <2> QED
    BY <1>1, <2>1, <2>2, <2>3 DEF Agree
<1> QED
  BY <1>2 DEF SpellsItems
-----------------------------------------------------------------------------
(***************************************************************************)
(* The bytes of a value that is written out in full.                       *)
(***************************************************************************)
Lengths == [Values -> [Nat -> Nat]]

(* B counts the bytes of values, whose items inner counts. *)
CountOf(inner, B) ==
    /\ B \in Lengths
    /\ \A v \in Values :
        /\ B[v][0] = v.head
        /\ \A n \in 1 .. Len(v.items) :
            B[v][n] = B[v][n - 1] + inner[v.items[n]][Len(v.items[n].items)]

LEMMA SpeltCounts ==
    ASSUME NEW inner \in Lengths
    PROVE  CountOf(inner, Spelt(inner))
<1>1. ASSUME NEW v \in Values
      PROVE  /\ Spelt(inner)[v] \in [Nat -> Nat] /\ Spelt(inner)[v][0] = v.head
             /\ \A n \in 1 .. Len(v.items) :
                    Spelt(inner)[v][n] = Spelt(inner)[v][n - 1]
                                         + inner[v.items[n]][Len(v.items[n].items)]
  <2> DEFINE cost(n) == inner[v.items[n]][Len(v.items[n].items)]
             h == [n \in Nat |-> [b \in Nat |-> IF n + 1 \notin DOMAIN v.items THEN v.head
                                                ELSE b + cost(n + 1)]]
             Eq(f) == f = [n \in Nat |-> IF n \notin DOMAIN v.items THEN v.head
                                         ELSE f[n - 1] + cost(n)]
  <2>1. /\ v.head \in Nat /\ v.items \in Seq(Values) /\ DOMAIN v.items = 1 .. Len(v.items)
        /\ Len(v.items) \in Nat
    BY DataSectionAssumption
  <2>2. ASSUME NEW n \in DOMAIN v.items PROVE cost(n) \in Nat /\ n \in Nat
    <3>1. PICK w \in Values : w = v.items[n]
      BY <2>1
    <3>2. PICK m \in Nat : m = Len(w.items)
      BY Heights
    <3>3. inner[w][m] \in Nat
      BY DEF Lengths
    <3>4. cost(n) = inner[w][m]
      BY <3>1, <3>2
    <3> QED
      BY <2>1, <3>3, <3>4
  <2>3. Spelt(inner)[v] = CHOOSE f : Eq(f)
    BY DEF Spelt
  <2> HIDE DEF cost
  <2>4. h \in [Nat -> [Nat -> Nat]]
    <3>1. ASSUME NEW n \in Nat, NEW b \in Nat
          PROVE  (IF n + 1 \notin DOMAIN v.items THEN v.head ELSE b + cost(n + 1)) \in Nat
      BY <2>1, <2>2
    <3> QED
      BY <3>1
  <2>5. PICK f : Iterates(Nat, v.head, h, f)
    <3> HIDE DEF h
    <3> QED
      BY <2>1, <2>4, Recursion
  <2>6. /\ f \in [Nat -> Nat] /\ f[0] = v.head
        /\ \A n \in Nat : f[n + 1] = IF n + 1 \notin DOMAIN v.items THEN v.head
                                     ELSE f[n] + cost(n + 1)
    BY <2>5 DEF Iterates
  <2> HIDE DEF h
  <2>7. Eq(f)
    <3>1. \A n \in Nat : n # 0 =>
            /\ n - 1 \in Nat /\ (n - 1) + 1 = n
      OBVIOUS
    <3>2. \A n \in Nat : n # 0 =>
            f[n] = IF n \notin DOMAIN v.items THEN v.head ELSE f[n - 1] + cost(n)
      BY <2>6, <3>1
    <3>3. 0 \notin DOMAIN v.items
      BY <2>1
    <3> QED
      BY <2>6, <3>2, <3>3
  <2>8. Eq(Spelt(inner)[v])
    <3> HIDE DEF Eq
    <3> QED
      BY Zenon, <2>3, <2>7
  <2>9. PICK g : g = Spelt(inner)[v]
    OBVIOUS
  <2>10. g = [n \in Nat |-> IF n \notin DOMAIN v.items THEN v.head ELSE g[n - 1] + cost(n)]
    BY <2>8, <2>9
  <2>11. /\ \A n \in Nat : n \notin DOMAIN v.items => g[n] = v.head
         /\ \A n \in DOMAIN v.items : g[n] = g[n - 1] + cost(n)
    BY <2>2, <2>10
  <2>12. \A n \in Nat : g[n] \in Nat
    <3> DEFINE S == {n \in Nat : g[n] \in Nat}
    <3>1. 0 \in S
      BY <2>1, <2>11
    <3>2. ASSUME NEW n \in Nat, n \in S PROVE n + 1 \in S
      <4>1. PICK i \in Nat : i = n + 1 /\ i - 1 = n
        OBVIOUS
      <4>2. CASE i \in DOMAIN v.items
        <5>1. g[i] = g[n] + cost(i) /\ cost(i) \in Nat /\ g[n] \in Nat
          BY <2>2, <2>11, <3>2, <4>1, <4>2
        <5> QED
          BY <4>1, <5>1
      <4>3. CASE i \notin DOMAIN v.items
        BY <2>1, <2>11, <4>1, <4>3
      <4> QED
        BY <4>2, <4>3
    <3> HIDE DEF S
    <3>3. \A n \in Nat : n \in S
      BY <3>1, <3>2, Induction
    <3> QED
      BY <3>3 DEF S
  <2>13. g \in [Nat -> Nat]
    BY <2>10, <2>12
  <2>14. g[0] = v.head /\ \A n \in 1 .. Len(v.items) : g[n] = g[n - 1] + cost(n)
    BY <2>1, <2>11
  <2> QED
    BY <2>9, <2>13, <2>14 DEF cost
<1>2. Spelt(inner) \in Lengths
  <2>1. Spelt(inner) = [v \in Values |-> Spelt(inner)[v]]
    BY DEF Spelt
  <2> QED
    BY <1>1, <2>1 DEF Lengths
<1> QED
  BY <1>1, <1>2 DEF CountOf

LEMMA SpellingCounts ==
    /\ Spelling \in [Nat -> Lengths]
    /\ \A d \in Nat : CountOf(Spelling[d], Spelling[d + 1])
<1> DEFINE none == [v \in Values |-> [n \in Nat |-> 0]]
           h == [d \in Nat |-> [B \in Lengths |-> Spelt(B)]]
           Eq(f) == f = [d \in Nat |-> IF d = 0 THEN none ELSE Spelt(f[d - 1])]
<1>1. \A B \in Lengths : Spelt(B) \in Lengths
  BY SpeltCounts DEF CountOf
<1>2. h \in [Nat -> [Lengths -> Lengths]] /\ none \in Lengths
  BY <1>1 DEF Lengths
<1>3. Spelling = CHOOSE f : Eq(f)
  BY DEF Spelling
<1> HIDE DEF none
<1>4. PICK f : Iterates(Lengths, none, h, f)
  <2> HIDE DEF h
  <2> QED
    BY <1>2, Recursion
<1>5. f \in [Nat -> Lengths] /\ f[0] = none /\ \A d \in Nat : f[d + 1] = Spelt(f[d])
  BY <1>4 DEF Iterates
<1> HIDE DEF h
<1>6. Eq(f)
  <2>1. \A d \in Nat : d # 0 => d - 1 \in Nat /\ f[d] = Spelt(f[d - 1])
    BY <1>5
  <2> QED
    BY <1>5, <2>1
<1>7. Eq(Spelling)
  <2> HIDE DEF Eq
  <2> QED
    BY Zenon, <1>3, <1>6
<1>8. PICK g : g = Spelling
  OBVIOUS
<1>9. g = [d \in Nat |-> IF d = 0 THEN none ELSE Spelt(g[d - 1])]
  BY <1>7, <1>8
<1>10. g[0] = none /\ \A d \in Nat : g[d + 1] = Spelt(g[d])
  <2>1. \A d \in Nat : d + 1 \in Nat /\ d + 1 # 0 /\ (d + 1) - 1 = d
    OBVIOUS
  <2> QED
    BY <1>9, <2>1
<1>11. \A d \in Nat : g[d] \in Lengths
  <2> DEFINE S == {d \in Nat : g[d] \in Lengths}
  <2>1. 0 \in S
    BY <1>2, <1>10
  <2>2. ASSUME NEW d \in Nat, d \in S PROVE d + 1 \in S
    <3>1. g[d] \in Lengths
      BY <2>2
    <3>2. g[d + 1] = Spelt(g[d])
      BY <1>10
    <3>3. g[d + 1] \in Lengths
      BY <1>1, <3>1, <3>2
    <3> QED
      BY <3>3
  <2> HIDE DEF S
  <2>3. \A d \in Nat : d \in S
    BY <2>1, <2>2, Induction
  <2> QED
    BY <2>3 DEF S
<1>12. g \in [Nat -> Lengths]
  BY <1>9, <1>11
<1>13. ASSUME NEW d \in Nat PROVE CountOf(g[d], g[d + 1])
  <2>1. g[d] \in Lengths /\ g[d + 1] = Spelt(g[d])
    BY <1>10, <1>11
  <2> QED
    BY <2>1, SpeltCounts
<1> QED
  BY <1>8, <1>12, <1>13

(* Deep enough for v, the count of its bytes does not depend on how deep. *)
LEMMA SpellingSettles ==
    \A d \in Nat : \A v \in Values : Height[v] <= d =>
        \A n \in 0 .. Len(v.items) : Spelling[d + 1][v][n] = Spelling[d][v][n]
<1> DEFINE Same(d) == \A v \in Values : Height[v] <= d =>
                \A n \in 0 .. Len(v.items) : Spelling[d + 1][v][n] = Spelling[d][v][n]
           S == {d \in Nat : Same(d)}
<1>1. 0 \in S
  <2>1. ASSUME NEW v \in Values PROVE ~(Height[v] <= 0)
    <3>1. PICK x \in Nat : x = Height[v] /\ x >= 1
      BY Heights
    <3> QED
      BY <3>1
  <2> QED
    BY <2>1
<1>2. ASSUME NEW d \in Nat, d \in S PROVE d + 1 \in S
  <2>1. ASSUME NEW v \in Values, Height[v] <= d + 1
        PROVE  \A n \in 0 .. Len(v.items) : Spelling[(d + 1) + 1][v][n] = Spelling[d + 1][v][n]
    <3>1. /\ CountOf(Spelling[d], Spelling[d + 1])
          /\ CountOf(Spelling[d + 1], Spelling[(d + 1) + 1])
      BY SpellingCounts
    <3>2. Len(v.items) \in Nat
      BY Heights
    <3>3. ASSUME NEW n \in 1 .. Len(v.items)
          PROVE  Spelling[d + 1][v.items[n]][Len(v.items[n].items)]
                   = Spelling[d][v.items[n]][Len(v.items[n].items)]
      <4>1. PICK w \in Values : w = v.items[n]
        BY Heights
      <4>2. PICK x \in Nat, y \in Nat : x = Height[w] /\ y = Height[v] /\ x < y /\ y <= d + 1
        BY <2>1, <4>1, Heights
      <4>3. Height[w] <= d
        BY <4>2
      <4>4. Len(w.items) \in 0 .. Len(w.items)
        BY Heights
      <4> QED
        BY <1>2, <4>1, <4>3, <4>4
    <3> DEFINE N == {n \in Nat : n <= Len(v.items) =>
                        Spelling[(d + 1) + 1][v][n] = Spelling[d + 1][v][n]}
    <3>4. 0 \in N
      BY <3>1 DEF CountOf
    <3>5. ASSUME NEW n \in Nat, n \in N PROVE n + 1 \in N
      <4>1. SUFFICES ASSUME n + 1 <= Len(v.items)
                     PROVE  Spelling[(d + 1) + 1][v][n + 1] = Spelling[d + 1][v][n + 1]
        OBVIOUS
      <4>2. n + 1 \in 1 .. Len(v.items) /\ (n + 1) - 1 = n /\ n <= Len(v.items)
        BY <3>2, <4>1
      <4>3. PICK i \in 1 .. Len(v.items) : i = n + 1 /\ i - 1 = n
        BY <4>2
      <4>4. Spelling[(d + 1) + 1][v][n] = Spelling[d + 1][v][n]
        BY <3>5, <4>2
      <4>5. Spelling[d + 1][v][i] = Spelling[d + 1][v][n]
                                    + Spelling[d][v.items[i]][Len(v.items[i].items)]
        BY <3>1, <4>3 DEF CountOf
      <4>6. Spelling[(d + 1) + 1][v][i] = Spelling[(d + 1) + 1][v][n]
                                    + Spelling[d + 1][v.items[i]][Len(v.items[i].items)]
        BY <3>1, <4>3 DEF CountOf
      <4> QED
        BY <3>3, <4>3, <4>4, <4>5, <4>6
    <3> HIDE DEF N
    <3>6. \A n \in Nat : n \in N
      BY <3>4, <3>5, Induction
    <3> QED
      BY <3>2, <3>6 DEF N
  <2> QED
    BY <2>1
<1> HIDE DEF S
<1>3. \A d \in Nat : d \in S
  BY <1>1, <1>2, Induction
<1> QED
  BY <1>3 DEF S

(* The bytes of v written out in full, in front of item n + 1. *)
PlainTo(v, n) == Spelling[DepthLimit][v][n]

LEMMA PlainBytes ==
    ASSUME NEW v \in Values
    PROVE  /\ PlainTo(v, 0) = v.head /\ PlainTo(v, Len(v.items)) = Plain(v)
           /\ \A n \in 0 .. Len(v.items) : PlainTo(v, n) \in Nat
           /\ \A n \in 1 .. Len(v.items) : PlainTo(v, n) = PlainTo(v, n - 1) + Plain(v.items[n])
           /\ Plain(v) \in Nat
<1>1. PICK x \in Nat : x = Height[v] /\ x >= 1 /\ x <= DepthLimit /\ DepthLimit \in Nat
  BY Heights
<1>2. PICK d \in Nat : DepthLimit = d + 1
  <2>1. DepthLimit - 1 \in Nat /\ DepthLimit = (DepthLimit - 1) + 1
    BY <1>1
  <2> QED
    BY <2>1
<1>3. CountOf(Spelling[d], Spelling[DepthLimit]) /\ Spelling[DepthLimit] \in Lengths
  BY <1>1, <1>2, SpellingCounts
<1>4. Len(v.items) \in Nat
  BY Heights
<1>5. \A n \in 0 .. Len(v.items) : PlainTo(v, n) \in Nat
  BY <1>3, <1>4 DEF Lengths, PlainTo
<1>6. PlainTo(v, 0) = v.head /\ PlainTo(v, Len(v.items)) = Plain(v)
  BY <1>3 DEF CountOf, PlainTo, Plain
<1>7. ASSUME NEW n \in 1 .. Len(v.items)
      PROVE  PlainTo(v, n) = PlainTo(v, n - 1) + Plain(v.items[n])
  <2>1. PICK w \in Values : w = v.items[n]
    BY Heights
  <2>2. PICK y \in Nat : y = Height[w] /\ y < x
    BY <1>1, <2>1, Heights
  <2>3. Height[w] <= d
    BY <1>1, <1>2, <2>2
  <2>4. Len(w.items) \in 0 .. Len(w.items)
    BY Heights
  <2>5. Spelling[d][w][Len(w.items)] = Plain(w)
    BY <1>2, <2>3, <2>4, SpellingSettles DEF Plain
  <2>6. PlainTo(v, n) = PlainTo(v, n - 1) + Spelling[d][w][Len(w.items)]
    BY <1>3, <2>1 DEF CountOf, PlainTo
  <2> QED
    BY <2>1, <2>5, <2>6
<1>8. Plain(v) \in Nat
  <2>1. Len(v.items) \in 0 .. Len(v.items)
    BY <1>4
  <2> QED
    BY <1>5, <1>6, <2>1
<1> QED
  BY <1>5, <1>6, <1>7, <1>8

-----------------------------------------------------------------------------
(***************************************************************************)
(* The values in a section, whole ones and such as are being written.      *)
(***************************************************************************)

(* z bytes that begin with the tokens of s, no two of them at one offset. *)
Placed(s, z) == Tidy(s) /\ \A k \in DOMAIN s : s[k].at < z

(* a bytes, where without pointers it is b. *)
Pays(np, a, b) == a <= b /\ (np => a = b)

HeaderAt(s, v, o) == \E k \in DOMAIN s : s[k] = HeaderFor(v, o)

(* From o to p is v, as far as its first r items. *)
Part(s, np, v, o, r, p) ==
    /\ r \in 0 .. Len(v.items) /\ o \in Nat /\ p \in Nat
    /\ HeaderAt(s, v, o)
    /\ SpellsItems(s, v, r, o + v.head, p)
    /\ Pays(np, p - o, PlainTo(v, r))

(* From o to e is v. *)
Whole(s, np, v, o, e) ==
    /\ o \in Nat /\ e \in Int
    /\ HeaderAt(s, v, o)
    /\ Spells(s, v, o, e)
    /\ Pays(np, e - o, Plain(v))

(* A token behind all others. *)
LEMMA PlacedMore ==
    ASSUME NEW z \in Nat, NEW s, Placed(s, z), NEW token \in Token, token.at = z, token.len > 0,
           NEW u, u = Append(s, token)
    PROVE  /\ Placed(u, z + token.len) /\ Extends(s, u)
           /\ Len(s) + 1 \in DOMAIN u /\ u[Len(s) + 1] = token
<1>1. s \in Seq(Token) /\ token.len \in Nat
  BY DEF Placed, Tidy, Token
<1>2. PICK n \in Nat : n = Len(s) /\ DOMAIN s = 1 .. n
  BY <1>1
<1>3. /\ u \in Seq(Token) /\ DOMAIN u = 1 .. n + 1 /\ u[n + 1] = token
      /\ \A k \in 1 .. n : u[k] = s[k]
  BY <1>1, <1>2
<1>4. \A k \in 1 .. n : u[k].at < z /\ u[k].at \in Nat
  <2>1. \A k \in 1 .. n : s[k] \in Token
    BY <1>1, <1>2
  <2> QED
    BY <1>2, <1>3, <2>1 DEF Placed, Token
<1>5. \A k \in 1 .. n + 1 : k = n + 1 \/ k \in 1 .. n
  OBVIOUS
<1>6. \A k \in 1 .. n : k \in 1 .. n + 1
  OBVIOUS
<1>7. \A j, k \in DOMAIN u : u[j].at = u[k].at => j = k
  <2>1. \A j, k \in 1 .. n : u[j].at = u[k].at => j = k
    BY <1>2, <1>3 DEF Placed, Tidy
  <2>2. \A k \in 1 .. n : u[k].at # u[n + 1].at
    BY <1>3, <1>4
  <2> QED
    BY <1>3, <1>5, <2>1, <2>2
<1>8. \A k \in DOMAIN u : u[k].at < z + token.len
  <2>1. u[n + 1].at < z + token.len
    BY <1>1, <1>3
  <2>2. \A k \in 1 .. n : u[k].at < z + token.len
    BY <1>1, <1>4
  <2> QED
    BY <1>3, <1>5, <2>1, <2>2
<1>9. Tidy(u)
  BY <1>3, <1>7 DEF Tidy
<1> QED
  BY <1>2, <1>3, <1>6, <1>8, <1>9 DEF Placed, Extends

LEMMA HeaderAtStays ==
    ASSUME NEW s, NEW u, Extends(s, u), NEW v, NEW o, HeaderAt(s, v, o)
    PROVE  HeaderAt(u, v, o)
BY DEF HeaderAt, Extends

LEMMA PartStays ==
    ASSUME NEW s, NEW u, Extends(s, u), NEW np, NEW v \in Values, NEW o, NEW r, NEW p,
           Part(s, np, v, o, r, p)
    PROVE  Part(u, np, v, o, r, p)
<1>1. o + v.head \in Nat
  BY DataSectionAssumption DEF Part
<1>2. SpellsItems(u, v, r, o + v.head, p)
  BY <1>1, SpellsItemsStays DEF Part
<1> QED
  BY <1>2, HeaderAtStays DEF Part

LEMMA WholeStays ==
    ASSUME NEW s, NEW u, Extends(s, u), NEW np, NEW v \in Values, NEW o, NEW e,
           Whole(s, np, v, o, e)
    PROVE  Whole(u, np, v, o, e)
BY HeaderAtStays, SpellsStays DEF Whole

LEMMA PartOpens ==
    ASSUME NEW s, Tidy(s), NEW np, NEW v \in Values, NEW o \in Nat, HeaderAt(s, v, o)
    PROVE  Part(s, np, v, o, 0, o + v.head)
<1>1. v.head \in Nat /\ Len(v.items) \in Nat /\ s \in Seq(Token)
  BY DataSectionAssumption, Heights DEF Tidy
<1>2. SpellsItems(s, v, 0, o + v.head, o + v.head)
  BY <1>1, SpellsNone
<1>3. Pays(np, (o + v.head) - o, PlainTo(v, 0))
  BY <1>1, PlainBytes DEF Pays
<1> QED
  BY <1>1, <1>2, <1>3 DEF Part

LEMMA PartMore ==
    ASSUME NEW s, Tidy(s), NEW np, NEW v \in Values, NEW o, NEW r, NEW m, NEW e \in Nat,
           Part(s, np, v, o, r, m), r < Len(v.items),
           NEW w \in Values, w = v.items[r + 1], Spells(s, w, m, e), Pays(np, e - m, Plain(w))
    PROVE  Part(s, np, v, o, r + 1, e)
<1>1. /\ v.head \in Nat /\ Len(v.items) \in Nat /\ s \in Seq(Token)
      /\ r \in Nat /\ o \in Nat /\ m \in Nat /\ o + v.head \in Nat
  <2>1. PICK h \in Nat : h = v.head
    BY DataSectionAssumption
  <2>2. Len(v.items) \in Nat /\ s \in Seq(Token)
    BY Heights DEF Tidy
  <2>3. r \in 0 .. Len(v.items) /\ o \in Nat /\ m \in Nat
    BY DEF Part
  <2> QED
    BY <2>1, <2>2, <2>3
<1>2. r + 1 \in 1 .. Len(v.items) /\ r + 1 \in 0 .. Len(v.items) /\ r \in 0 .. Len(v.items)
      /\ (r + 1) - 1 = r
  BY SMTT(30), <1>1
<1>3. SpellsItems(s, v, r + 1, o + v.head, e)
  BY <1>1, SpellsMore DEF Part
<1>4. Pays(np, e - o, PlainTo(v, r + 1))
  <2>1. PICK i \in 1 .. Len(v.items) : i = r + 1 /\ i - 1 = r
    BY <1>2
  <2>2. PlainTo(v, i) = PlainTo(v, i - 1) + Plain(v.items[i])
    BY PlainBytes
  <2>3. PICK a \in Nat, b \in Nat, c \in Nat :
            a = PlainTo(v, r) /\ b = Plain(w) /\ c = PlainTo(v, r + 1)
    BY <1>2, PlainBytes
  <2>4. c = a + b
    BY <2>1, <2>2, <2>3
  <2>5. Pays(np, m - o, a) /\ Pays(np, e - m, b)
    BY <2>3 DEF Part
  <2>6. Pays(np, e - o, c)
    BY <1>1, <2>4, <2>5 DEF Pays
  <2> QED
    BY <2>3, <2>6
<1> QED
  BY <1>1, <1>2, <1>3, <1>4 DEF Part

LEMMA PartDone ==
    ASSUME NEW s, Tidy(s), NEW np, NEW v \in Values, NEW o, NEW e,
           Part(s, np, v, o, Len(v.items), e)
    PROVE  Whole(s, np, v, o, e)
<1>1. PICK k \in DOMAIN s : s[k] = HeaderFor(v, o)
  BY DEF Part, HeaderAt
<1>2. Spells(s, v, o, e)
  BY <1>1, SpellsValue DEF Part
<1>3. Pays(np, e - o, Plain(v))
  BY PlainBytes DEF Part
<1> QED
  BY <1>2, <1>3 DEF Part, Whole

(* A pointer at z to a whole value takes no more room than the value. *)
LEMMA PointerSpells ==
    ASSUME NEW s, Tidy(s), NEW np, ~np, NEW v \in Values, NEW o, NEW e, Whole(s, np, v, o, e),
           NEW k \in DOMAIN s, s[k].to = o, s[k].to # NoTarget, s[k].len < e - o
    PROVE  /\ Spells(s, v, s[k].at, s[k].at + s[k].len)
           /\ Pays(np, s[k].len, Plain(v))
<1>1. PICK j \in DOMAIN s : s[j] = HeaderFor(v, o)
  BY DEF Whole, HeaderAt
<1>2. s[j].at = o /\ s[j].to = NoTarget
  BY <1>1 DEF HeaderFor
<1>3. Spells(s, v, s[k].at, s[k].at + s[k].len)
  <2>1. Spells(s, v, s[j].at, e) /\ s[k].to = s[j].at
    BY <1>2 DEF Whole
  <2> QED
    BY <1>2, <2>1, SpellsPointer
<1>4. s[k].len \in Nat
  <2>1. s[k] \in Token
    BY DEF Tidy
  <2> QED
    BY <2>1 DEF Token
<1>5. Pays(np, s[k].len, Plain(v))
  <2>1. PICK b \in Nat : b = Plain(v)
    BY PlainBytes
  <2>2. o \in Nat /\ e \in Int /\ e - o <= b
    BY <2>1 DEF Whole, Pays
  <2> QED
    BY <1>4, <2>1, <2>2 DEF Pays
<1> QED
  BY <1>3, <1>5

-----------------------------------------------------------------------------
(***************************************************************************)
(* The stack k of the encoding in a section of z bytes: a frame that is    *)
(* not the last one is in front of the item that the frame above it writes.*)
(***************************************************************************)
Done(k, i)   == IF i = Len(k) THEN k[i].next - 1 ELSE k[i].next - 2
Pos(k, z, i) == IF i = Len(k) THEN z ELSE k[i + 1].offset

PartOf(s, np, k, z, i) == Part(s, np, k[i].value, k[i].offset, Done(k, i), Pos(k, z, i))

Parts(s, np, k, z) ==
    /\ \A i \in 1 .. Len(k) : PartOf(s, np, k, z, i)
    /\ \A i \in 1 .. Len(k) - 1 : /\ Done(k, i) < Len(k[i].value.items)
                                  /\ k[i + 1].value = k[i].value.items[Done(k, i) + 1]

(* The innermost of the n frames k goes to its next item, which is behind w. *)
Advances(k, t, n, w) ==
    /\ Len(k) = n /\ Len(t) = n
    /\ k[n].next <= Len(k[n].value.items) /\ w = k[n].value.items[k[n].next]
    /\ \A i \in 1 .. n - 1 : t[i] = k[i]
    /\ t[n].value = k[n].value /\ t[n].offset = k[n].offset /\ t[n].next = k[n].next + 1

(* The innermost encoding writes one of its items as a pointer. *)
LEMMA PartsStep ==
    ASSUME NEW s, NEW u, Extends(s, u), NEW np, NEW z \in Nat,
           NEW k \in Seq(Frame), NEW t \in Seq(Frame), NEW n \in Nat \ {0},
           NEW w \in Values, Advances(k, t, n, w), Parts(s, np, k, z),
           NEW q \in Nat, Spells(u, w, z, z + q), Pays(np, q, Plain(w))
    PROVE  Parts(u, np, t, z + q)
<1>0. /\ Len(k) = n /\ Len(t) = n
      /\ k[n].next <= Len(k[n].value.items) /\ w = k[n].value.items[k[n].next]
      /\ \A i \in 1 .. n - 1 : t[i] = k[i]
      /\ t[n].value = k[n].value /\ t[n].offset = k[n].offset /\ t[n].next = k[n].next + 1
  BY DEF Advances
<1>1. n \in 1 .. n /\ \A i \in 1 .. n : i = n \/ (i \in 1 .. n - 1 /\ i # n)
  BY SMT
<1>2. ASSUME NEW i \in 1 .. n - 1
      PROVE  /\ i \in 1 .. n /\ t[i] = k[i] /\ k[i].value \in Values
             /\ t[i + 1].value = k[i + 1].value
             /\ Done(t, i) = Done(k, i) /\ Pos(t, z + q, i) = Pos(k, z, i)
  <2>1. i \in 1 .. n /\ i # n /\ (i + 1 = n \/ i + 1 \in 1 .. n - 1)
    BY SMT
  <2>2. t[i] = k[i] /\ t[i + 1].offset = k[i + 1].offset /\ t[i + 1].value = k[i + 1].value
    BY <1>0, <2>1
  <2>3. k[i].value \in Values
    BY <1>0, <2>1, FrameOf
  <2> QED
    BY <1>0, <2>1, <2>2, <2>3 DEF Done, Pos
<1>3. PartOf(u, np, t, z + q, n)
  <2>1. k[n].value \in Values /\ k[n].offset \in Nat /\ k[n].next \in Nat
    BY <1>0, <1>1, FrameOf
  <2>2. PICK v \in Values, x \in Nat : v = k[n].value /\ x = k[n].next
    BY <1>0, <2>1
  <2>3. Part(s, np, v, k[n].offset, x - 1, z)
    BY <1>0, <1>1, <2>2 DEF Parts, PartOf, Done, Pos
  <2>4. x - 1 \in Nat /\ x - 1 < Len(v.items) /\ (x - 1) + 1 = x /\ (x + 1) - 1 = x
    <3>1. x - 1 \in 0 .. Len(v.items) /\ Len(v.items) \in Nat /\ x <= Len(v.items)
      BY <1>0, <2>2, <2>3, Heights DEF Part
    <3> QED
      BY SMT, <3>1
  <2>5. Part(u, np, v, k[n].offset, x - 1, z)
    BY <1>0, <2>3, PartStays
  <2>6. Tidy(u) /\ z + q \in Nat /\ (z + q) - z = q
    BY DEF Extends
  <2>7. PICK r \in Nat : r = x - 1 /\ r + 1 = x
    BY <1>0, <2>4
  <2>8. Part(u, np, v, k[n].offset, r + 1, z + q)
    <3>1. r < Len(v.items) /\ w = v.items[r + 1] /\ Part(u, np, v, k[n].offset, r, z)
      BY <1>0, <2>2, <2>4, <2>5, <2>7
    <3>2. PICK e \in Nat : e = z + q /\ e - z = q
      BY <1>0, <2>6
    <3>3. Spells(u, w, z, e) /\ Pays(np, e - z, Plain(w))
      BY <1>0, <3>2
    <3> QED
      BY <1>0, <2>6, <3>1, <3>2, <3>3, PartMore
  <2> QED
    BY <1>0, <2>2, <2>4, <2>7, <2>8 DEF PartOf, Done, Pos
<1>4. ASSUME NEW i \in 1 .. n - 1 PROVE PartOf(u, np, t, z + q, i)
  <2>1. PartOf(s, np, k, z, i)
    BY <1>0, <1>2 DEF Parts
  <2> QED
    BY <1>0, <1>2, <2>1, PartStays DEF PartOf
<1>5. \A i \in 1 .. n : PartOf(u, np, t, z + q, i)
  BY <1>0, <1>1, <1>3, <1>4
<1>6. \A i \in 1 .. n - 1 : /\ Done(t, i) < Len(t[i].value.items)
                            /\ t[i + 1].value = t[i].value.items[Done(t, i) + 1]
  BY <1>0, <1>2 DEF Parts
<1> QED
  BY <1>0, <1>5, <1>6 DEF Parts

(* On the n frames k, with the next item gone to, a frame for v is put at z. *)
Opens(k, t, n, v, z) ==
    /\ Len(k) = n /\ Len(t) = n + 1
    /\ n # 0 => k[n].next <= Len(k[n].value.items) /\ v = k[n].value.items[k[n].next]
    /\ \A i \in 1 .. n - 1 : t[i] = k[i]
    /\ n # 0 => /\ t[n].value = k[n].value /\ t[n].offset = k[n].offset
                /\ t[n].next = k[n].next + 1
    /\ t[n + 1].value = v /\ t[n + 1].offset = z /\ t[n + 1].next = 1

(* The header of v is written: of the innermost encoding's next item, or of a pushed value. *)
LEMMA PartsOpen ==
    ASSUME NEW s, NEW u, Extends(s, u), NEW np, NEW z \in Nat,
           NEW k \in Seq(Frame), NEW t \in Seq(Frame), NEW n \in Nat,
           NEW v \in Values, HeaderAt(u, v, z), Opens(k, t, n, v, z), Parts(s, np, k, z)
    PROVE  Parts(u, np, t, z + v.head)
<1>0. /\ Len(k) = n /\ Len(t) = n + 1
      /\ n # 0 => k[n].next <= Len(k[n].value.items) /\ v = k[n].value.items[k[n].next]
      /\ \A i \in 1 .. n - 1 : t[i] = k[i]
      /\ n # 0 => /\ t[n].value = k[n].value /\ t[n].offset = k[n].offset
                  /\ t[n].next = k[n].next + 1
      /\ t[n + 1].value = v /\ t[n + 1].offset = z /\ t[n + 1].next = 1
  BY DEF Opens
<1>1. ASSUME NEW i \in 1 .. n
      PROVE  /\ t[i].value = k[i].value /\ t[i].offset = k[i].offset /\ k[i].value \in Values
             /\ Done(t, i) = Done(k, i) /\ Pos(t, z + v.head, i) = Pos(k, z, i)
  <2>1. CASE i = n
    <3>1. /\ n # 0 /\ n # n + 1 /\ k[n].next \in Nat /\ k[n].value \in Values
          /\ (k[n].next + 1) - 2 = k[n].next - 1
      BY SMT, <1>0, <2>1, FrameOf
    <3> QED
      BY <1>0, <2>1, <3>1 DEF Done, Pos
  <2>2. CASE i # n
    <3>1. i \in 1 .. n - 1 /\ i # n + 1 /\ (i + 1 = n \/ i + 1 \in 1 .. n - 1)
      BY SMT, <2>2
    <3>2. t[i] = k[i] /\ t[i + 1].offset = k[i + 1].offset
      BY <1>0, <3>1
    <3>3. k[i].value \in Values
      BY <1>0, FrameOf
    <3> QED
      BY <1>0, <2>2, <3>1, <3>2, <3>3 DEF Done, Pos
  <2> QED
    BY <2>1, <2>2
<1>2. PartOf(u, np, t, z + v.head, n + 1)
  <2>1. Part(u, np, v, z, 0, z + v.head)
    BY PartOpens DEF Extends
  <2> QED
    BY <1>0, <2>1 DEF PartOf, Done, Pos
<1>3. ASSUME NEW i \in 1 .. n PROVE PartOf(u, np, t, z + v.head, i)
  <2>1. PartOf(s, np, k, z, i)
    BY <1>0 DEF Parts
  <2> QED
    BY <1>1, <2>1, PartStays DEF PartOf
<1>4. \A i \in 1 .. n + 1 : i \in 1 .. n \/ i = n + 1
  BY SMT
<1>5. ASSUME NEW i \in 1 .. n
      PROVE  /\ Done(t, i) < Len(t[i].value.items)
             /\ t[i + 1].value = t[i].value.items[Done(t, i) + 1]
  <2>1. CASE i = n
    <3>1. PICK x \in Nat : x = k[n].next
      BY <1>0, <2>1, FrameOf
    <3>2. PICK w \in Values : w = k[n].value /\ w = t[n].value
      BY <1>1, <2>1
    <3>3. n # 0 /\ x <= Len(w.items) /\ v = w.items[x] /\ Len(w.items) \in Nat
      <4>1. n # 0
        BY SMT, <2>1
      <4> QED
        BY <1>0, <3>1, <3>2, <4>1, Heights
    <3>4. Done(t, n) = x - 1
      BY <1>0, <1>1, <2>1, <3>1 DEF Done
    <3>5. x - 1 < Len(w.items) /\ (x - 1) + 1 = x
      BY SMT, <3>3
    <3> QED
      BY <1>0, <2>1, <3>2, <3>3, <3>4, <3>5
  <2>2. CASE i # n
    <3>1. i \in 1 .. n - 1 /\ i + 1 \in 1 .. n
      BY SMT, <2>2
    <3>2. t[i + 1].value = k[i + 1].value
      BY <1>1, <3>1
    <3> QED
      BY <1>0, <1>1, <3>1, <3>2 DEF Parts
  <2> QED
    BY <2>1, <2>2
<1>6. \A i \in 1 .. (n + 1) - 1 : i \in 1 .. n
  BY SMT
<1> QED
  BY <1>0, <1>2, <1>3, <1>4, <1>5, <1>6 DEF Parts

(* t is the n frames k without the innermost, which has no item left. *)
Pops(k, t, n) ==
    /\ Len(k) = n /\ Len(t) = n - 1
    /\ k[n].next > Len(k[n].value.items)
    /\ \A i \in 1 .. n - 1 : t[i] = k[i]

(* The innermost encoding is done, and so is an item of the one below it. *)
LEMMA PartsPop ==
    ASSUME NEW s, Tidy(s), NEW np, NEW z \in Nat,
           NEW k \in Seq(Frame), NEW t \in Seq(Frame), NEW n \in Nat \ {0},
           Pops(k, t, n), Parts(s, np, k, z)
    PROVE  Whole(s, np, k[n].value, k[n].offset, z) /\ Parts(s, np, t, z)
<1>0. /\ Len(k) = n /\ Len(t) = n - 1
      /\ k[n].next > Len(k[n].value.items)
      /\ \A i \in 1 .. n - 1 : t[i] = k[i]
  BY DEF Pops
<1>1. n \in 1 .. n
  BY SMT
<1>2. PICK v \in Values, x \in Nat : v = k[n].value /\ x = k[n].next
  BY <1>0, <1>1, FrameOf
<1>3. Part(s, np, v, k[n].offset, x - 1, z)
  BY <1>0, <1>1, <1>2 DEF Parts, PartOf, Done, Pos
<1>4. x - 1 = Len(v.items)
  <2>1. x - 1 \in 0 .. Len(v.items) /\ Len(v.items) \in Nat /\ x > Len(v.items)
    BY <1>0, <1>2, <1>3, Heights DEF Part
  <2> QED
    BY SMT, <2>1
<1>5. Whole(s, np, v, k[n].offset, z)
  BY <1>0, <1>3, <1>4, PartDone
<1>6. ASSUME NEW i \in 1 .. n - 1, i # n - 1
      PROVE  /\ PartOf(s, np, t, z, i)
             /\ Done(t, i) < Len(t[i].value.items)
             /\ t[i + 1].value = t[i].value.items[Done(t, i) + 1]
  <2>1. i \in 1 .. n /\ i # n /\ i + 1 \in 1 .. n - 1
    BY SMT, <1>6
  <2>2. t[i] = k[i] /\ t[i + 1] = k[i + 1]
    BY <1>0, <2>1
  <2>3. Done(t, i) = Done(k, i) /\ Pos(t, z, i) = Pos(k, z, i)
    BY <1>0, <1>6, <2>1, <2>2 DEF Done, Pos
  <2> QED
    BY <1>0, <2>1, <2>2, <2>3 DEF Parts, PartOf
<1>7. ASSUME n # 1 PROVE PartOf(s, np, t, z, n - 1)
  <2>1. PICK m \in 1 .. n - 1 : m = n - 1 /\ m \in 1 .. n /\ m # n /\ m + 1 = n
    BY SMT, <1>7
  <2>2. PICK w \in Values, y \in Nat, o \in Nat : w = k[m].value /\ y = k[m].next /\ o = k[m].offset
    BY <1>0, <2>1, FrameOf
  <2>3. /\ Part(s, np, w, o, y - 2, k[n].offset)
        /\ y - 2 < Len(w.items) /\ v = w.items[(y - 2) + 1]
    BY <1>0, <1>2, <2>1, <2>2 DEF Parts, PartOf, Done, Pos
  <2>4. PICK r \in Nat : r = y - 2 /\ r + 1 = y - 1
    <3>1. y - 2 \in 0 .. Len(w.items) /\ Len(w.items) \in Nat
      BY <1>0, <2>3, Heights DEF Part
    <3>2. y - 2 \in Nat /\ (y - 2) + 1 = y - 1
      BY SMT, <3>1
    <3> QED
      BY <1>0, <3>2
  <2>5. Part(s, np, w, o, r + 1, z)
    <3>1. Part(s, np, w, o, r, k[n].offset) /\ r < Len(w.items) /\ v = w.items[r + 1]
      BY <1>0, <2>3, <2>4
    <3>2. Spells(s, v, k[n].offset, z) /\ Pays(np, z - k[n].offset, Plain(v))
      BY <1>0, <1>5 DEF Whole
    <3> QED
      BY <1>0, <3>1, <3>2, PartMore
  <2>6. t[m] = k[m] /\ Done(t, m) = r + 1 /\ Pos(t, z, m) = z
    BY <1>0, <2>1, <2>2, <2>4 DEF Done, Pos
  <2> QED
    BY <1>0, <2>1, <2>2, <2>5, <2>6 DEF PartOf
<1>8. /\ \A i \in 1 .. n - 1 : i # n - 1 \/ n # 1
      /\ \A i \in 1 .. (n - 1) - 1 : i \in 1 .. n - 1 /\ i # n - 1
  BY SMT
<1>9. Parts(s, np, t, z)
  BY <1>0, <1>6, <1>7, <1>8 DEF Parts
<1> QED
  BY <1>0, <1>2, <1>5, <1>9

-----------------------------------------------------------------------------
(***************************************************************************)
(* The bytes of what was pushed.                                           *)
(***************************************************************************)
Return == [value : Values, offset : Nat, fresh : BOOLEAN]

(* The bytes of one push, and g[n] those of the first n pushes of R. *)
Cost(r) == IF r.fresh THEN Plain(r.value) ELSE 0

Tally(R, g) ==
    /\ g \in [Nat -> Nat] /\ g[0] = 0
    /\ \A n \in 1 .. Len(R) : g[n] = g[n - 1] + Cost(R[n])

(* PlainPushes, of any results. *)
Pushes(R) ==
    LET Bytes[k \in Nat] ==
            IF k \notin DOMAIN R THEN 0
            ELSE Bytes[k - 1] + (IF R[k].fresh THEN Plain(R[k].value) ELSE 0)
    IN  Bytes[Len(R)]

LEMMA CostIsNat == ASSUME NEW r \in Return PROVE Cost(r) \in Nat
<1>1. r.value \in Values
  BY DEF Return
<1> QED
  BY <1>1, PlainBytes DEF Cost

LEMMA PushesTally ==
    ASSUME NEW R \in Seq(Return)
    PROVE  \E g : Tally(R, g) /\ Pushes(R) = g[Len(R)]
<1> DEFINE h == [n \in Nat |-> [b \in Nat |-> IF n + 1 \notin DOMAIN R THEN 0
                                              ELSE b + Cost(R[n + 1])]]
           Eq(f) == f = [n \in Nat |-> IF n \notin DOMAIN R THEN 0 ELSE f[n - 1] + Cost(R[n])]
<1>1. Len(R) \in Nat /\ DOMAIN R = 1 .. Len(R)
  OBVIOUS
<1>2. ASSUME NEW n \in DOMAIN R PROVE Cost(R[n]) \in Nat /\ n \in Nat
  <2>1. PICK r \in Return : r = R[n]
    OBVIOUS
  <2> QED
    BY <1>1, <2>1, CostIsNat
<1>3. Pushes(R) = (CHOOSE f : Eq(f))[Len(R)]
  BY DEF Pushes, Cost
<1>4. h \in [Nat -> [Nat -> Nat]]
  <2>1. ASSUME NEW n \in Nat, NEW b \in Nat
        PROVE  (IF n + 1 \notin DOMAIN R THEN 0 ELSE b + Cost(R[n + 1])) \in Nat
    BY <1>2
  <2> QED
    BY <2>1
<1>5. PICK f : Iterates(Nat, 0, h, f)
  <2> HIDE DEF h
  <2> QED
    BY <1>4, Recursion
<1>6. /\ f \in [Nat -> Nat] /\ f[0] = 0
      /\ \A n \in Nat : f[n + 1] = IF n + 1 \notin DOMAIN R THEN 0 ELSE f[n] + Cost(R[n + 1])
  BY <1>5 DEF Iterates
<1> HIDE DEF h
<1>7. Eq(f)
  <2>1. \A n \in Nat : n # 0 => n - 1 \in Nat /\ (n - 1) + 1 = n
    OBVIOUS
  <2>2. \A n \in Nat : n # 0 => f[n] = IF n \notin DOMAIN R THEN 0 ELSE f[n - 1] + Cost(R[n])
    BY <1>6, <2>1
  <2>3. 0 \notin DOMAIN R
    BY <1>1
  <2> QED
    BY <1>6, <2>2, <2>3
<1>8. PICK g : g = CHOOSE e : Eq(e)
  OBVIOUS
<1>9. Eq(g)
  <2> HIDE DEF Eq
  <2> QED
    BY Zenon, <1>7, <1>8
<1>10. /\ \A n \in Nat : n \notin DOMAIN R => g[n] = 0
       /\ \A n \in DOMAIN R : g[n] = g[n - 1] + Cost(R[n])
  BY <1>2, <1>9
<1>11. \A n \in Nat : g[n] \in Nat
  <2> DEFINE S == {n \in Nat : g[n] \in Nat}
  <2>1. 0 \in S
    BY <1>1, <1>10
  <2>2. ASSUME NEW n \in Nat, n \in S PROVE n + 1 \in S
    <3>1. PICK i \in Nat : i = n + 1 /\ i - 1 = n
      OBVIOUS
    <3>2. CASE i \in DOMAIN R
      <4>1. g[i] = g[n] + Cost(R[i]) /\ Cost(R[i]) \in Nat /\ g[n] \in Nat
        BY <1>2, <1>10, <2>2, <3>1, <3>2
      <4> QED
        BY <3>1, <4>1
    <3>3. CASE i \notin DOMAIN R
      BY <1>10, <3>1, <3>3
    <3> QED
      BY <3>2, <3>3
  <2> HIDE DEF S
  <2>3. \A n \in Nat : n \in S
    BY <2>1, <2>2, Induction
  <2> QED
    BY <2>3 DEF S
<1>12. g \in [Nat -> Nat]
  BY <1>9, <1>11
<1>13. Tally(R, g)
  <2>1. 0 \notin DOMAIN R
    BY <1>1
  <2>2. g[0] = 0
    BY <1>10, <2>1
  <2>3. \A n \in 1 .. Len(R) : g[n] = g[n - 1] + Cost(R[n])
    BY <1>1, <1>10
  <2> QED
    BY <1>12, <2>2, <2>3 DEF Tally
<1> QED
  BY <1>3, <1>8, <1>13

(* R and Q begin with the same m results. *)
SameStart(R, Q, m) ==
    /\ m \in Nat /\ Len(R) \in Nat /\ Len(Q) \in Nat /\ m <= Len(R) /\ m <= Len(Q)
    /\ \A k \in 1 .. m : Q[k] = R[k]

LEMMA TalliesAgree ==
    ASSUME NEW R, NEW Q, NEW m, SameStart(R, Q, m), NEW g, NEW f, Tally(R, g), Tally(Q, f)
    PROVE  g[m] = f[m]
<1>0. /\ m \in Nat /\ m <= Len(R) /\ m <= Len(Q) /\ Len(R) \in Nat /\ Len(Q) \in Nat
      /\ \A k \in 1 .. m : Q[k] = R[k]
  BY DEF SameStart
<1> DEFINE S == {n \in Nat : n <= m => g[n] = f[n]}
<1>1. 0 \in S
  BY DEF Tally
<1>2. ASSUME NEW n \in Nat, n \in S PROVE n + 1 \in S
  <2>1. CASE n + 1 <= m
    <3>1. PICK i \in Nat : i = n + 1 /\ i - 1 = n /\ n <= m
      BY SMT, <1>0, <2>1
    <3>2. i \in 1 .. m /\ i \in 1 .. Len(R) /\ i \in 1 .. Len(Q)
      BY <1>0, <2>1, <3>1
    <3>3. g[i] = g[n] + Cost(R[i]) /\ f[i] = f[n] + Cost(Q[i])
      BY <3>1, <3>2 DEF Tally
    <3>4. g[n] = f[n] /\ Q[i] = R[i]
      BY <1>0, <1>2, <3>1, <3>2
    <3>5. g[i] = f[i]
      BY <3>3, <3>4
    <3> QED
      BY <3>1, <3>5
  <2> QED
    BY <1>0, <2>1
<1> HIDE DEF S
<1>3. m \in S
  BY <1>0, <1>1, <1>2, Induction
<1> QED
  BY <1>0, <1>3 DEF S

(* One push more. *)
LEMMA PushesMore ==
    ASSUME NEW R \in Seq(Return), NEW r \in Return
    PROVE  /\ Pushes(R) \in Nat
           /\ Pushes(Append(R, r)) = Pushes(R) + Cost(r)
<1>1. PICK m \in Nat : m = Len(R)
  OBVIOUS
<1>2. PICK Q \in Seq(Return) : /\ Q = Append(R, r) /\ Len(Q) = m + 1 /\ Q[m + 1] = r
                               /\ \A k \in 1 .. m : Q[k] = R[k]
  <2>1. /\ Append(R, r) \in Seq(Return) /\ Len(Append(R, r)) = m + 1
        /\ Append(R, r)[m + 1] = r /\ \A k \in 1 .. m : Append(R, r)[k] = R[k]
    BY <1>1
  <2> QED
    BY <2>1
<1>3. PICK g : Tally(R, g) /\ Pushes(R) = g[m]
  BY <1>1, PushesTally
<1>4. PICK f : Tally(Q, f) /\ Pushes(Q) = f[m + 1]
  BY <1>2, PushesTally
<1>5. g[m] = f[m]
  <2>1. SameStart(R, Q, m)
    BY <1>1, <1>2 DEF SameStart
  <2> QED
    BY <1>3, <1>4, <2>1, TalliesAgree
<1>6. f[m + 1] = f[m] + Cost(r)
  <2>1. m + 1 \in 1 .. m + 1 /\ (m + 1) - 1 = m
    OBVIOUS
  <2> QED
    BY <1>2, <1>4, <2>1 DEF Tally
<1>7. g[m] \in Nat
  BY <1>3 DEF Tally
<1> QED
  BY <1>2, <1>3, <1>4, <1>5, <1>6, <1>7

LEMMA NothingPushed == Pushes(<< >>) = 0
<1>1. << >> \in Seq(Return) /\ Len(<< >>) = 0
  OBVIOUS
<1>2. PICK g : Tally(<< >>, g) /\ Pushes(<< >>) = g[Len(<< >>)]
  BY <1>1, PushesTally
<1> QED
  BY <1>1, <1>2 DEF Tally

-----------------------------------------------------------------------------
(***************************************************************************)
(* The inductive invariant.  That the table's entries decode says nothing  *)
(* by itself about the next one, which is that of the innermost frame: so  *)
(* the frames must have written their values as far as they have come.     *)
(* And the bytes pushed are compared where the outermost frame began,      *)
(* since a value counts when it is whole.                                  *)
(***************************************************************************)
Entered(s, np, d) == \A e \in d : Whole(s, np, e.value, e.offset, e.offset + e.len)
Leads(s, np, r)   == \E e : Whole(s, np, r.value, r.offset, e)
Returned(s, np, R) == \A i \in DOMAIN R : Leads(s, np, R[i])

(* Where the value that is being pushed begins, in z bytes. *)
Began(k, z) == IF Len(k) = 0 THEN z ELSE k[1].offset

Spoken ==
    /\ Placed(section, size)
    /\ Entered(section, noPointers, dedup)
    /\ Returned(section, noPointers, returned)
    /\ Parts(section, noPointers, stack, size)
    /\ Pays(noPointers, Began(stack, size), Pushes(returned))

LEMMA InitSpoken == Init => Spoken
<1> SUFFICES ASSUME Init PROVE Spoken
  OBVIOUS
<1>1. section = << >> /\ size = 0 /\ dedup = {} /\ stack = << >> /\ returned = << >>
  BY DEF Init
<1>2. Len(stack) = 0 /\ DOMAIN section = {} /\ DOMAIN returned = {} /\ section \in Seq(Token)
  BY <1>1
<1>3. Placed(section, size)
  BY <1>2 DEF Placed, Tidy
<1>4. Entered(section, noPointers, dedup) /\ Returned(section, noPointers, returned)
  BY <1>1, <1>2 DEF Entered, Returned
<1>5. Parts(section, noPointers, stack, size)
  <2>1. (\A i \in 1 .. 0 : FALSE) /\ \A i \in 1 .. 0 - 1 : FALSE
    BY SMT
  <2> QED
    BY <1>2, <2>1 DEF Parts
<1>6. Pays(noPointers, Began(stack, size), Pushes(returned))
  BY <1>1, <1>2, NothingPushed DEF Pays, Began
<1> QED
  BY <1>3, <1>4, <1>5, <1>6 DEF Spoken

(* What the other proofs say about the state, and the results. *)
LEMMA TheState ==
    ASSUME IInv, Spoken
    PROVE  /\ Typed /\ size \in Nat /\ stack \in Seq(Frame) /\ returned \in Seq(Return)
           /\ Tidy(section)
           /\ \A e \in dedup : e.value \in Values /\ e.offset \in Nat /\ e.len \in Int
           /\ \A i \in DOMAIN returned : returned[i].value \in Values
<1>1. Typed /\ size \in Nat /\ stack \in Seq(Frame) /\ returned \in Seq(Return)
  BY DEF IInv, Typed, Return
<1>2. \A e \in dedup : e.value \in Values /\ e.offset \in Nat /\ e.len \in Int
  BY <1>1 DEF Typed
<1>3. \A i \in DOMAIN returned : returned[i].value \in Values
  <2>1. \A i \in DOMAIN returned : returned[i] \in Return
    BY <1>1
  <2> QED
    BY <2>1 DEF Return
<1>4. Tidy(section)
  BY DEF Spoken, Placed
<1> QED
  BY <1>1, <1>2, <1>3, <1>4

(* A token behind the section disturbs nothing. *)
LEMMA WritesSpeak ==
    ASSUME IInv, Spoken, NEW token \in Token, token.at = size, token.len > 0, Write(token),
           UNCHANGED <<dedup, noPointers, returned>>
    PROVE  /\ Placed(section', size') /\ Extends(section, section')
           /\ \E k \in DOMAIN section' : section'[k] = token
           /\ Entered(section', noPointers', dedup')
           /\ Returned(section', noPointers', returned')
<1>1. section' = Append(section, token) /\ size' = size + token.len
  BY DEF Write
<1>2. /\ Placed(section', size') /\ Extends(section, section')
      /\ \E k \in DOMAIN section' : section'[k] = token
  <2>1. Placed(section, size) /\ size \in Nat
    BY TheState DEF Spoken
  <2>2. PICK u : u = section' /\ u = Append(section, token)
    BY <1>1
  <2>3. /\ Placed(u, size + token.len) /\ Extends(section, u)
        /\ Len(section) + 1 \in DOMAIN u /\ u[Len(section) + 1] = token
    BY ZenonT(40), <2>1, <2>2, PlacedMore
  <2> QED
    BY <1>1, <2>2, <2>3
<1>3. Entered(section', noPointers', dedup')
  <2>1. ASSUME NEW e \in dedup
        PROVE  Whole(section', noPointers, e.value, e.offset, e.offset + e.len)
    BY <1>2, TheState, WholeStays DEF Spoken, Entered
  <2> QED
    BY <2>1 DEF Entered
<1>4. Returned(section', noPointers', returned')
  <2>1. ASSUME NEW i \in DOMAIN returned PROVE Leads(section', noPointers, returned[i])
    <3>1. PICK e : Whole(section, noPointers, returned[i].value, returned[i].offset, e)
      BY DEF Spoken, Returned, Leads
    <3>2. Whole(section', noPointers, returned[i].value, returned[i].offset, e)
      BY <1>2, <3>1, TheState, WholeStays
    <3> QED
      BY <3>2 DEF Leads
  <2> QED
    BY <2>1 DEF Returned
<1> QED
  BY <1>2, <1>3, <1>4

(* A header at the end of the section. *)
LEMMA OpenSpoken ==
    ASSUME IInv, Spoken, NEW v \in Values, NEW below \in Seq(Frame),
           Open(v, below), UNCHANGED <<dedup, noPointers, returned>>,
           \/ stack = << >> /\ below = << >>
           \/ HasItem /\ v = Item /\ below = Advanced
    PROVE  Spoken'
<1>1. Typed /\ size \in Nat /\ stack \in Seq(Frame)
  BY TheState
<1>2. PICK n \in Nat, z \in Nat : n = Len(stack) /\ z = size
  BY <1>1
<1>3. PICK g \in Frame : g.value = v /\ g.offset = z /\ g.next = 1 /\ stack' = Append(below, g)
  <2>1. [value |-> v, offset |-> z, next |-> 1] \in Frame
    BY DEF Frame
  <2> QED
    BY <1>2, <2>1 DEF Open
<1>4. PICK token \in Token : token = HeaderFor(v, z) /\ token.at = z /\ token.len = v.head
  <2>1. PICK x \in Nat \ {0}, c \in Nat : x = v.head /\ c = Len(v.items)
    BY DataSectionAssumption, Heights
  <2>2. [at |-> z, name |-> v.name, count |-> c, to |-> NoTarget, len |-> x] \in Token
    BY DEF Token
  <2> QED
    BY <2>1, <2>2 DEF HeaderFor
<1>5. Write(token) /\ token.at = size /\ token.len > 0
  <2>1. v.head \in Nat \ {0}
    BY DataSectionAssumption
  <2> QED
    BY <1>2, <1>4, <2>1 DEF Open, HeaderFor
<1>6. /\ Placed(section', size') /\ Extends(section, section')
      /\ \E k \in DOMAIN section' : section'[k] = token
      /\ Entered(section', noPointers', dedup') /\ Returned(section', noPointers', returned')
  BY <1>5, WritesSpeak
<1>7. Len(below) = n /\ \A i \in 1 .. n - 1 : below[i] = stack[i]
  <2>1. CASE stack = << >> /\ below = << >>
    BY <1>2, <2>1
  <2>2. CASE HasItem /\ below = Advanced
    BY <1>1, <1>2, <2>2, TopOf DEF HasItem
  <2> QED
    BY <2>1, <2>2
<1>8. ASSUME n # 0
      PROVE  /\ stack[n].next <= Len(stack[n].value.items)
             /\ v = stack[n].value.items[stack[n].next]
             /\ below[n].value = stack[n].value /\ below[n].offset = stack[n].offset
             /\ below[n].next = stack[n].next + 1
  <2>1. HasItem /\ v = Item /\ below = Advanced /\ stack # << >>
    BY <1>2, <1>8 DEF HasItem
  <2> QED
    BY <1>1, <1>2, <2>1, TopOf DEF HasItem, Item
<1>9. PICK t \in Seq(Frame) : t = stack' /\ Len(t) = n + 1 /\ t[n + 1] = g
                              /\ \A i \in 1 .. n : t[i] = below[i]
  BY <1>3, <1>7
<1>10. /\ \A i \in 1 .. n - 1 : i \in 1 .. n
       /\ n # 0 => n \in 1 .. n
  BY SMT
<1>11. \A i \in 1 .. n - 1 : t[i] = stack[i]
  BY <1>7, <1>9, <1>10
<1>12. n # 0 => /\ t[n].value = stack[n].value /\ t[n].offset = stack[n].offset
                /\ t[n].next = stack[n].next + 1
  BY <1>8, <1>9, <1>10
<1>13. Parts(section', noPointers', stack', size')
  <2>1. HeaderAt(section', v, z)
    BY <1>4, <1>6 DEF HeaderAt
  <2>2. t[n + 1].value = v /\ t[n + 1].offset = z /\ t[n + 1].next = 1
    BY <1>3, <1>9
  <2>3. n # 0 => /\ stack[n].next <= Len(stack[n].value.items)
                 /\ v = stack[n].value.items[stack[n].next]
    BY <1>8
  <2>4. Parts(section, noPointers, stack, z)
    BY <1>2 DEF Spoken
  <2>5. Parts(section', noPointers, t, z + v.head)
    <3>1. PICK u : u = section'
      OBVIOUS
    <3>2. Extends(section, u) /\ HeaderAt(u, v, z)
      BY <1>6, <2>1, <3>1
    <3>3. PICK k \in Seq(Frame) : k = stack
      BY <1>1
    <3>4. Len(k) = n /\ Len(t) = n + 1 /\ Parts(section, noPointers, k, z)
      BY <1>2, <1>9, <2>4, <3>3
    <3>5. Opens(k, t, n, v, z)
      BY <1>11, <1>12, <2>2, <2>3, <3>3, <3>4 DEF Opens
    <3>6. Parts(u, noPointers, t, z + v.head)
      BY <3>2, <3>4, <3>5, PartsOpen
    <3> QED
      BY <3>1, <3>6
  <2>6. size' = z + v.head
    BY <1>2 DEF Open, Write
  <2> QED
    BY <1>9, <2>5, <2>6
<1>14. Began(stack', size') = Began(stack, size)
  <2>1. Began(stack', size') = t[1].offset
    <3>1. n + 1 # 0
      BY SMT
    <3> QED
      BY <1>9, <3>1 DEF Began
  <2>2. CASE n = 0
    BY <1>2, <1>3, <1>9, <2>1, <2>2 DEF Began
  <2>3. CASE n # 0
    <3>1. n = 1 \/ 1 \in 1 .. n - 1
      BY SMT, <2>3
    <3>2. t[1].offset = stack[1].offset
      BY <1>11, <1>12, <2>3, <3>1
    <3> QED
      BY <1>2, <2>1, <2>3, <3>2 DEF Began
  <2> QED
    BY <2>2, <2>3
<1> QED
  BY <1>6, <1>13, <1>14 DEF Spoken

LEMMA EmitPointerSpoken == ASSUME IInv, Spoken, EmitPointer PROVE Spoken'
<1>1. /\ Typed /\ TypeOK /\ size \in Nat /\ stack \in Seq(Frame)
      /\ HasItem /\ stack # << >> /\ PointerWins(Item)
  BY TheState DEF IInv, EmitPointer, HasItem
<1>2. PICK n \in Nat \ {0}, z \in Nat : n = Len(stack) /\ z = size
  BY <1>1, TopOf
<1>3. PICK w \in Values : w = Item
  BY <1>1, ItemIsValue
<1>4. Known(w) /\ ~noPointers
  BY <1>1, <1>3 DEF PointerWins
<1>5. PICK e \in dedup : /\ e = Entry(w) /\ e.value = w /\ e.offset \in Nat /\ e.len \in Int
                         /\ PointerBytes(e.offset) < e.len
  <2>1. Entry(w) \in dedup /\ Entry(w).value = w
    BY <1>1, <1>4, EntryFound
  <2>2. Entry(w).offset \in Nat /\ Entry(w).len \in Int
    BY <2>1, TheState
  <2>3. Entry(w).len > PointerBytes(Entry(w).offset)
    BY <1>1, <1>3 DEF PointerWins
  <2>4. PointerBytes(Entry(w).offset) \in Nat
    BY <2>2, PointersCost
  <2> QED
    BY <2>1, <2>2, <2>3, <2>4
<1>6. PICK q \in Nat \ {0}, o \in Nat : q = PointerBytes(e.offset) /\ o = e.offset
  BY <1>5, PointersCost DEF PointerBytes
<1>7. PICK token \in Token : /\ token.at = z /\ token.to = o /\ token.len = q /\ token.to # NoTarget
                             /\ Write(token)
  <2>1. [at |-> z, name |-> "pointer", count |-> 0, to |-> o, len |-> q] \in Token
    BY DEF Token
  <2>2. Write([at |-> z, name |-> "pointer", count |-> 0, to |-> o, len |-> q])
    BY <1>2, <1>3, <1>5, <1>6 DEF EmitPointer
  <2>3. o # NoTarget
    BY DEF NoTarget
  <2> QED
    BY <2>1, <2>2, <2>3
<1>8. UNCHANGED <<dedup, noPointers, returned>> /\ stack' = Advanced
  BY DEF EmitPointer
<1>9. /\ Placed(section', size') /\ Extends(section, section')
      /\ \E k \in DOMAIN section' : section'[k] = token
      /\ Entered(section', noPointers', dedup') /\ Returned(section', noPointers', returned')
  <2>1. token.at = size /\ token.len > 0
    BY <1>2, <1>7
  <2> QED
    BY <1>7, <1>8, <2>1, WritesSpeak
<1>10. PICK u : u = section' /\ Extends(section, u)
  BY <1>9
<1>11. Spells(u, w, z, z + q) /\ Pays(noPointers, q, Plain(w))
  <2>1. PICK k \in DOMAIN u : u[k] = token
    BY <1>9, <1>10
  <2>2. Whole(u, noPointers, w, o, o + e.len)
    BY <1>5, <1>6, <1>8, <1>9, <1>10 DEF Entered
  <2>3. q < (o + e.len) - o
    BY <1>5, <1>6
  <2>4. Tidy(u)
    BY <1>10 DEF Extends
  <2>5. u[k].to = o /\ u[k].to # NoTarget /\ u[k].len < (o + e.len) - o
    BY <1>7, <2>1, <2>3
  <2>6. Spells(u, w, u[k].at, u[k].at + u[k].len) /\ Pays(noPointers, u[k].len, Plain(w))
    BY <1>4, <2>1, <2>2, <2>4, <2>5, PointerSpells
  <2> QED
    BY <1>7, <2>1, <2>6
<1>12. PICK k \in Seq(Frame), t \in Seq(Frame) : k = stack /\ t = Advanced
  BY <1>1, TopOf
<1>13. Advances(k, t, n, w)
  <2>1. Item = k[n].value.items[k[n].next] /\ k[n].next <= Len(k[n].value.items)
    BY <1>1, <1>2, <1>12, TopOf DEF Item, HasItem
  <2>2. /\ Len(t) = n /\ \A i \in 1 .. n - 1 : t[i] = k[i]
        /\ t[n].value = k[n].value /\ t[n].offset = k[n].offset
        /\ t[n].next = k[n].next + 1
    BY <1>1, <1>2, <1>12, TopOf
  <2> QED
    BY <1>2, <1>3, <1>12, <2>1, <2>2 DEF Advances
<1>14. size' = z + q
  BY <1>2, <1>7 DEF Write
<1>15. Parts(section', noPointers', stack', size')
  <2>1. Parts(section, noPointers, k, z)
    BY <1>2, <1>12 DEF Spoken
  <2>2. Parts(u, noPointers, t, z + q)
    BY <1>10, <1>11, <1>13, <2>1, PartsStep
  <2> QED
    BY <1>8, <1>10, <1>12, <1>14, <2>2
<1>16. Began(stack', size') = Began(stack, size)
  <2>1. Len(t) = n /\ Len(k) = n /\ t[n].offset = k[n].offset /\ \A i \in 1 .. n - 1 : t[i] = k[i]
    BY <1>13 DEF Advances
  <2>2. n = 1 \/ 1 \in 1 .. n - 1
    BY SMT
  <2>3. t[1].offset = k[1].offset
    BY <2>1, <2>2
  <2> QED
    BY <1>8, <1>12, <2>1, <2>3 DEF Began
<1> QED
  BY <1>8, <1>9, <1>15, <1>16 DEF Spoken

(* One result more. *)
LEMMA ReturnedMore ==
    ASSUME NEW s, NEW np, NEW R \in Seq(Return), Returned(s, np, R),
           NEW r \in Return, Leads(s, np, r)
    PROVE  Returned(s, np, Append(R, r))
<1>1. \A i \in DOMAIN Append(R, r) :
          Append(R, r)[i] = r \/ (i \in DOMAIN R /\ Append(R, r)[i] = R[i])
  OBVIOUS
<1> QED
  BY <1>1 DEF Returned

LEMMA PushKnownSpoken ==
    ASSUME IInv, Spoken, NEW v \in Pushed, PushKnown(v)
    PROVE  Spoken'
<1>1. /\ Known(v) /\ v \in Values /\ Typed /\ TypeOK /\ returned \in Seq(Return)
      /\ UNCHANGED <<section, size, dedup, noPointers, stack>>
  BY TheState, DataSectionAssumption DEF PushKnown, IInv
<1>2. Entry(v) \in dedup /\ Entry(v).value = v /\ Entry(v).offset \in Nat
  BY <1>1, EntryFound
<1>3. PICK r \in Return : /\ r.value = v /\ r.offset = Entry(v).offset /\ r.fresh = FALSE
                          /\ returned' = Append(returned, r)
  <2>1. PICK o \in Nat : o = Entry(v).offset
    BY <1>2
  <2>2. [value |-> v, offset |-> o, fresh |-> FALSE] \in Return
    BY <1>1 DEF Return
  <2> QED
    BY <2>1, <2>2 DEF PushKnown
<1>4. Leads(section, noPointers, r)
  BY <1>2, <1>3 DEF Spoken, Entered, Leads
<1>5. Returned(section, noPointers, returned')
  BY <1>1, <1>3, <1>4, ReturnedMore DEF Spoken
<1>6. Pushes(returned') = Pushes(returned)
  <2>1. Cost(r) = 0
    BY <1>3 DEF Cost
  <2>2. Pushes(returned) \in Nat /\ Pushes(Append(returned, r)) = Pushes(returned) + Cost(r)
    BY <1>1, PushesMore
  <2> QED
    BY <1>3, <2>1, <2>2
<1> QED
  BY <1>1, <1>5, <1>6 DEF Spoken

LEMMA CloseSpoken == ASSUME IInv, Spoken, Close PROVE Spoken'
<1>1. /\ Typed /\ size \in Nat /\ stack \in Seq(Frame) /\ returned \in Seq(Return)
      /\ stack # << >> /\ ~HasItem /\ Tidy(section)
      /\ UNCHANGED <<section, size, noPointers>>
  BY TheState DEF Close
<1>2. PICK n \in Nat \ {0}, z \in Nat : n = Len(stack) /\ z = size /\ Top = stack[n] /\ n \in 1 .. n
  BY <1>1, TopOf
<1>3. PICK k \in Seq(Frame), t \in Seq(Frame) :
          k = stack /\ t = Below /\ t = stack' /\ Len(t) = n - 1 /\ \A i \in 1 .. n - 1 : t[i] = k[i]
  BY <1>1, <1>2, TopOf DEF Close
<1>4. PICK v \in Values, o \in Nat, x \in Nat : v = k[n].value /\ o = k[n].offset /\ x = k[n].next
  BY <1>2, <1>3, FrameOf
<1>5. Pops(k, t, n)
  <2>1. ~(x <= Len(v.items)) /\ Len(v.items) \in Nat
    BY <1>1, <1>2, <1>3, <1>4, Heights DEF HasItem
  <2>2. x > Len(v.items)
    BY SMT, <2>1
  <2> QED
    BY <1>2, <1>3, <1>4, <2>2 DEF Pops
<1>6. Whole(section, noPointers, v, o, z) /\ Parts(section, noPointers, t, z)
  <2>1. Parts(section, noPointers, k, z)
    BY <1>2, <1>3 DEF Spoken
  <2> QED
    BY <1>1, <1>4, <1>5, <2>1, PartsPop
<1>7. Entered(section, noPointers, dedup')
  <2>1. z - o \in Int /\ o + (z - o) = z
    OBVIOUS
  <2>2. PICK e : e.value = v /\ e.offset = o /\ e.len = z - o /\ dedup' \subseteq dedup \cup {e}
    <3>1. dedup' \subseteq dedup \cup {[value |-> v, offset |-> o, len |-> z - o]}
      BY <1>2, <1>3, <1>4 DEF Close, Remember
    <3> QED
      BY <3>1
  <2>3. Whole(section, noPointers, e.value, e.offset, e.offset + e.len)
    BY <1>6, <2>1, <2>2
  <2> QED
    BY <2>2, <2>3 DEF Entered, Spoken
<1>8. CASE n = 1
  <2>1. Below = << >>
    BY <1>3, <1>8
  <2>2. PICK r \in Return : /\ r.value = v /\ r.offset = o /\ r.fresh = TRUE
                            /\ returned' = Append(returned, r)
    <3>1. [value |-> v, offset |-> o, fresh |-> TRUE] \in Return
      BY DEF Return
    <3>2. returned' = Append(returned, [value |-> v, offset |-> o, fresh |-> TRUE])
      BY <1>2, <1>3, <1>4, <2>1 DEF Close
    <3> QED
      BY <3>1, <3>2
  <2>3. Returned(section, noPointers, returned')
    <3>1. Leads(section, noPointers, r)
      BY <1>6, <2>2 DEF Leads
    <3> QED
      BY <1>1, <2>2, <3>1, ReturnedMore DEF Spoken
  <2>4. Pays(noPointers, Began(t, z), Pushes(returned'))
    <3>1. Began(t, z) = z /\ Began(stack, size) = o
      BY <1>2, <1>3, <1>4, <1>8 DEF Began
    <3>2. PICK a \in Nat, b \in Nat : a = Pushes(returned) /\ b = Plain(v)
      BY <1>1, <2>2, PushesMore, PlainBytes
    <3>3. Pushes(returned') = a + b
      BY <1>1, <2>2, <3>2, PushesMore DEF Cost
    <3>4. Pays(noPointers, o, a) /\ Pays(noPointers, z - o, b)
      BY <1>6, <3>1, <3>2 DEF Spoken, Whole
    <3>5. Pays(noPointers, z, a + b)
      BY <3>4 DEF Pays
    <3> QED
      BY <3>1, <3>3, <3>5
  <2> QED
    BY <1>1, <1>2, <1>3, <1>6, <1>7, <2>3, <2>4 DEF Spoken
<1>9. CASE n # 1
  <2>1. 1 \in 1 .. n - 1 /\ n - 1 # 0
    BY SMT, <1>9
  <2>2. Below # << >> /\ returned' = returned
    BY <1>3, <2>1 DEF Close
  <2>3. Began(t, z) = Began(stack, size)
    BY <1>2, <1>3, <2>1 DEF Began
  <2> QED
    BY <1>1, <1>2, <1>3, <1>6, <1>7, <2>2, <2>3 DEF Spoken
<1> QED
  BY <1>8, <1>9

LEMMA StepSpoken == IInv /\ Spoken /\ [Next]_vars => Spoken'
<1> SUFFICES ASSUME IInv, Spoken, [Next]_vars PROVE Spoken'
  OBVIOUS
<1>1. CASE UNCHANGED vars
  BY <1>1 DEF vars, Spoken
<1>2. ASSUME NEW v \in Pushed, PushKnown(v) PROVE Spoken'
  BY <1>2, PushKnownSpoken
<1>3. ASSUME NEW v \in Pushed, PushNew(v) PROVE Spoken'
  <2>1. v \in Values /\ << >> \in Seq(Frame) /\ stack = << >>
    BY <1>3, DataSectionAssumption DEF PushNew, CanPush
  <2>2. Open(v, << >>) /\ UNCHANGED <<dedup, noPointers, returned>>
    BY <1>3 DEF PushNew
  <2> QED
    BY <2>1, <2>2, OpenSpoken
<1>4. CASE EmitPointer
  BY <1>4, EmitPointerSpoken
<1>5. CASE EmitInline
  <2>1. HasItem /\ Open(Item, Advanced) /\ UNCHANGED <<dedup, noPointers, returned>>
    BY <1>5 DEF EmitInline
  <2>2. Item \in Values /\ Advanced \in Seq(Frame)
    BY <2>1, TheState, ItemIsValue, TopOf DEF HasItem
  <2> QED
    BY <2>1, <2>2, OpenSpoken
<1>6. CASE Close
  BY <1>6, CloseSpoken
<1> QED
  BY <1>1, <1>2, <1>3, <1>4, <1>5, <1>6 DEF Next

LEMMA SpokenAlways == Spec => [](IInv /\ Spoken)
<1>1. Init => IInv /\ Spoken
  BY InitIInv, InitSpoken
<1>2. IInv /\ Spoken /\ [Next]_vars => (IInv /\ Spoken)'
  BY StepIInv, StepSpoken
<1> QED
  BY <1>1, <1>2, PTL DEF Spec

-----------------------------------------------------------------------------
(* What the section spells at an offset is what the reader decodes there. *)
LEMMA Decoded ==
    ASSUME Tidy(section), NEW v \in Values, NEW o \in Nat, NEW e, Spells(section, v, o, e)
    PROVE  Decode(o) = [values |-> <<v>>, end |-> e]
<1>1. PICK x \in Nat : x = Height[v] /\ x >= 1 /\ x <= DepthLimit /\ DepthLimit \in Nat
  BY Heights
<1>2. PICK d \in Nat : DepthLimit = d + 1
  <2>1. DepthLimit - 1 \in Nat /\ DepthLimit = (DepthLimit - 1) + 1
    BY <1>1
  <2> QED
    BY <2>1
<1>3. RowOf(section, Reader(section)[d], Reader(section)[DepthLimit])
  BY <1>2, ReaderReads DEF Tidy
<1>4. PICK R : R = Reader(section)[DepthLimit][o] /\ R[0] = [values |-> << >>, end |-> o]
               /\ R[0 + 1] = More(section, Reader(section)[d], R[0])
  BY <1>3 DEF RowOf
<1>5. ValueAt(section, Reader(section)[d], o) = v /\ EndAt(section, Reader(section)[d], o) = e
  BY <1>1, <1>2 DEF Spells
<1>6. More(section, Reader(section)[d], R[0]) = [values |-> <<v>>, end |-> e]
  <2>1. R[0].values = << >> /\ R[0].end = o /\ Append(<< >>, v) = <<v>>
    BY <1>4
  <2> QED
    BY <1>5, <2>1 DEF More
<1>7. 0 + 1 = 1
  OBVIOUS
<1> QED
  BY <1>4, <1>6, <1>7 DEF Decode

(***************************************************************************)
(* Every value in the section reads back as itself, at the offset that     *)
(* push returned and at every offset that a pointer may lead to, and the   *)
(* reader is then where the entry says that the value ends: whatever was   *)
(* pushed, in any order, and however the values share what they contain.   *)
(***************************************************************************)
THEOREM ReadsBack == Spec => []DecodesBack
<1>1. IInv /\ Spoken => DecodesBack
  <2> SUFFICES ASSUME IInv, Spoken PROVE DecodesBack
    OBVIOUS
  <2>1. Tidy(section)
    BY TheState
  <2>2. ASSUME NEW i \in DOMAIN returned
        PROVE  Decode(returned[i].offset).values = <<returned[i].value>>
    <3>1. PICK e : Whole(section, noPointers, returned[i].value, returned[i].offset, e)
      BY DEF Spoken, Returned, Leads
    <3>2. PICK v \in Values, o \in Nat : v = returned[i].value /\ o = returned[i].offset
      BY <3>1, TheState DEF Whole
    <3>3. Spells(section, v, o, e)
      BY <3>1, <3>2 DEF Whole
    <3>4. Decode(o) = [values |-> <<v>>, end |-> e]
      BY <2>1, <3>3, Decoded
    <3> QED
      BY <3>2, <3>4
  <2>3. ASSUME NEW e \in dedup
        PROVE  Decode(e.offset) = [values |-> <<e.value>>, end |-> e.offset + e.len]
    <3>1. e.value \in Values /\ e.offset \in Nat
      BY TheState
    <3>2. Spells(section, e.value, e.offset, e.offset + e.len)
      BY DEF Spoken, Entered, Whole
    <3> QED
      BY <2>1, <3>1, <3>2, Decoded
  <2> QED
    BY <2>2, <2>3 DEF DecodesBack
<1> QED
  BY <1>1, SpokenAlways, PTL

(***************************************************************************)
(* The section with pointers is never larger than without them, and a      *)
(* section without_pointers is exactly as large as what was pushed.        *)
(***************************************************************************)
THEOREM PointersSave == Spec => []PointersPay
<1>1. Spoken => PointersPay
  <2> SUFFICES ASSUME Spoken, stack = << >>
               PROVE  size <= PlainPushes /\ (noPointers => size = PlainPushes)
    BY DEF PointersPay
  <2>1. Began(stack, size) = size
    BY DEF Began
  <2>2. PlainPushes = Pushes(returned)
    BY DEF PlainPushes, Pushes
  <2> QED
    BY <2>1, <2>2 DEF Spoken, Pays
<1> QED
  BY <1>1, SpokenAlways, PTL
=============================================================================
