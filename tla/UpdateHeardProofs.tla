-------------------------- MODULE UpdateHeardProofs --------------------------
(***************************************************************************)
(* What a server hears whole it installs, for any number of servers, sizes *)
(* and losses (data/examples/update/main.rs).                              *)
(***************************************************************************)
EXTENDS UpdateProofs

------------------------------------------------------------------------------
(* What a server has heard and not read yet *)

(* The boxes after reading from and adding to one *)
LEMMA TailBox ==
  ASSUME NEW D, NEW box \in Seq(D), box # <<>>
  PROVE  /\ Len(box) \in Nat \ {0} /\ DOMAIN box = 1 .. Len(box) /\ Head(box) = box[1]
         /\ Tail(box) \in Seq(D) /\ DOMAIN Tail(box) = 1 .. Len(box) - 1
         /\ \A i \in 1 .. Len(box) - 1 : Tail(box)[i] = box[i + 1]
OBVIOUS

LEMMA AppendBox ==
  ASSUME NEW D, NEW box \in Seq(D), NEW d \in D
  PROVE  /\ Len(box) \in Nat /\ DOMAIN box = 1 .. Len(box)
         /\ Append(box, d) \in Seq(D) /\ DOMAIN Append(box, d) = 1 .. Len(box) + 1
         /\ \A i \in 1 .. Len(box) : Append(box, d)[i] = box[i]
         /\ Append(box, d)[Len(box) + 1] = d
OBVIOUS

(* After a chunk of an update come only chunks of it, up to later updates. *)
LEMMA ChunksFollow ==
  ASSUME NEW box, Ordered(box), NEW k \in Nat, NEW i \in DOMAIN box, NEW j \in DOMAIN box,
         i < j, IsChunk(box[i], k), box[j].key \in Nat, box[j].key <= k
  PROVE  IsChunk(box[j], k)
<1>1. \/ box[i].key < box[j].key
      \/ box[i].key = box[j].key /\ (box[i].kind = "update" => box[j].kind = "update")
  BY DEF Ordered
<1>2. box[i].key = k /\ box[i].kind = "update"
  BY DEF IsChunk
<1>3. ~(k < box[j].key)
  OBVIOUS
<1> QED BY <1>1, <1>2, <1>3 DEF IsChunk

(* Boxes stay ordered when their first datagram is read, and when one is   *)
(* added that follows all others.                                          *)
LEMMA OrderedTail ==
  ASSUME NEW D, NEW box \in Seq(D), box # <<>>, Ordered(box)
  PROVE  Ordered(Tail(box))
<1>1. /\ Len(box) \in Nat \ {0} /\ DOMAIN box = 1 .. Len(box)
      /\ DOMAIN Tail(box) = 1 .. Len(box) - 1
      /\ \A i \in 1 .. Len(box) - 1 : Tail(box)[i] = box[i + 1]
  BY TailBox
<1>2. \A i, j \in 1 .. Len(box) - 1 : i + 1 \in DOMAIN box /\ j + 1 \in DOMAIN box /\
                                      (i < j => i + 1 < j + 1)
  BY <1>1
<1> QED BY <1>1, <1>2 DEF Ordered

LEMMA OrderedAppend ==
  ASSUME NEW D, NEW box \in Seq(D), NEW d \in D, Ordered(box),
         \A i \in DOMAIN box : \/ box[i].key < d.key
                               \/ /\ box[i].key = d.key
                                  /\ box[i].kind = "update" => d.kind = "update"
  PROVE  Ordered(Append(box, d))
<1> DEFINE new == Append(box, d)
<1>1. /\ Len(box) \in Nat /\ DOMAIN box = 1 .. Len(box)
      /\ DOMAIN new = 1 .. Len(box) + 1
      /\ \A i \in 1 .. Len(box) : new[i] = box[i]
      /\ new[Len(box) + 1] = d
  BY AppendBox
<1> HIDE DEF new
<1>2. \A i, j \in 1 .. Len(box) + 1 : i < j => i \in 1 .. Len(box) /\ 
                                               (j \in 1 .. Len(box) \/ j = Len(box) + 1)
  BY <1>1
<1>3. Ordered(new)
  BY <1>1, <1>2 DEF Ordered
<1> QED BY <1>3 DEF new

(* What the chunks in a box lead to does not depend on other datagrams. *)
LEMMA LeadsTailOther ==
  ASSUME NEW D, NEW box \in Seq(D), box # <<>>, NEW k, NEW from, NEW to,
         ~IsChunk(Head(box), k), Leads(box, k, from, to)
  PROVE  Leads(Tail(box), k, from, to)
<1> DEFINE new == Tail(box)
           Is(i) == IsChunk(box[i], k)
<1>1. /\ Len(box) \in Nat \ {0} /\ DOMAIN box = 1 .. Len(box)
      /\ DOMAIN new = 1 .. Len(box) - 1
      /\ \A i \in 1 .. Len(box) - 1 : new[i] = box[i + 1]
      /\ ~Is(1)
  BY TailBox
<1>2. \A i \in DOMAIN box : i = 1 \/ (i - 1 \in DOMAIN new /\ i = (i - 1) + 1)
  BY <1>1
<1>3. \A i \in DOMAIN new : /\ i + 1 \in DOMAIN box
                            /\ i - 1 \in DOMAIN new => i \in DOMAIN box /\ new[i - 1] = box[i]
                            /\ i - 1 \notin DOMAIN new => i = 1
                            /\ i + 1 \in DOMAIN new <=> (i + 1) + 1 \in DOMAIN box
                            /\ (i + 1) - 1 = i
  BY <1>1
<1> HIDE DEF new
<1>4. (\A i \in DOMAIN new : ~IsChunk(new[i], k)) => from = to
  BY <1>1, <1>2 DEF Leads
<1>5. ASSUME NEW i \in DOMAIN new, IsChunk(new[i], k)
      PROVE  /\ i - 1 \notin DOMAIN new \/ ~IsChunk(new[i - 1], k) => new[i].byte_offset = from
             /\ i + 1 \notin DOMAIN new \/ ~IsChunk(new[i + 1], k) => End(new[i]) = to
             /\ i + 1 \in DOMAIN new /\ IsChunk(new[i + 1], k) =>
                  new[i + 1].byte_offset = End(new[i])
  <2>1. i + 1 \in DOMAIN box /\ Is(i + 1) /\ new[i] = box[i + 1]
    BY <1>1, <1>3, <1>5
  <2>2. /\ (i + 1) - 1 \notin DOMAIN box \/ ~Is((i + 1) - 1) => box[i + 1].byte_offset = from
        /\ (i + 1) + 1 \notin DOMAIN box \/ ~Is((i + 1) + 1) => End(box[i + 1]) = to
        /\ (i + 1) + 1 \in DOMAIN box /\ Is((i + 1) + 1) =>
             box[(i + 1) + 1].byte_offset = End(box[i + 1])
    BY <2>1 DEF Leads
  <2>3. i + 1 \in DOMAIN new => new[i + 1] = box[(i + 1) + 1]
    BY <1>1
  <2> HIDE DEF Is
  <2>4. i - 1 \notin DOMAIN new \/ ~IsChunk(new[i - 1], k) => ~Is(i)
    BY <1>1, <1>3 DEF Is
  <2>5. i + 1 \notin DOMAIN new \/ ~IsChunk(new[i + 1], k) =>
          (i + 1) + 1 \notin DOMAIN box \/ ~Is((i + 1) + 1)
    BY <1>3, <2>3 DEF Is
  <2>6. i + 1 \in DOMAIN new /\ IsChunk(new[i + 1], k) =>
          (i + 1) + 1 \in DOMAIN box /\ Is((i + 1) + 1)
    BY <1>3, <2>3 DEF Is
  <2> QED BY <1>3, <2>1, <2>2, <2>3, <2>4, <2>5, <2>6
<1>6. Leads(new, k, from, to)
  BY <1>4, <1>5 DEF Leads
<1> QED BY <1>6 DEF new

LEMMA LeadsAppendOther ==
  ASSUME NEW D, NEW box \in Seq(D), NEW d \in D, NEW k, NEW from, NEW to,
         ~IsChunk(d, k), Leads(box, k, from, to)
  PROVE  Leads(Append(box, d), k, from, to)
<1> DEFINE new == Append(box, d)
           n == Len(box)
<1>1. /\ n \in Nat /\ DOMAIN box = 1 .. n /\ DOMAIN new = 1 .. n + 1
      /\ \A i \in 1 .. n : new[i] = box[i]
      /\ new[n + 1] = d
  BY AppendBox
<1> HIDE DEF new, n
<1>2. (\A i \in DOMAIN new : ~IsChunk(new[i], k)) => from = to
  BY <1>1 DEF Leads
<1>3. ASSUME NEW i \in DOMAIN new, IsChunk(new[i], k)
      PROVE  /\ i - 1 \notin DOMAIN new \/ ~IsChunk(new[i - 1], k) => new[i].byte_offset = from
             /\ i + 1 \notin DOMAIN new \/ ~IsChunk(new[i + 1], k) => End(new[i]) = to
             /\ i + 1 \in DOMAIN new /\ IsChunk(new[i + 1], k) =>
                  new[i + 1].byte_offset = End(new[i])
  <2>1. i \in DOMAIN box /\ new[i] = box[i] /\ IsChunk(box[i], k)
    BY <1>1, <1>3
  <2>2. /\ i - 1 \in DOMAIN box => i - 1 \in DOMAIN new /\ new[i - 1] = box[i - 1]
        /\ i + 1 \in DOMAIN box => i + 1 \in DOMAIN new /\ new[i + 1] = box[i + 1]
        /\ i + 1 \in DOMAIN new /\ i + 1 \notin DOMAIN box => new[i + 1] = d
    BY <1>1, <2>1
  <2> QED BY <2>1, <2>2 DEF Leads
<1>4. Leads(new, k, from, to)
  BY <1>2, <1>3 DEF Leads
<1> QED BY <1>4 DEF new

(* A chunk at the end of a box takes its chunks further.                   *)
LEMMA LeadsAppendChunk ==
  ASSUME NEW D, NEW box \in Seq(D), NEW d \in D, NEW k, NEW from, NEW to,
         IsChunk(d, k), d.byte_offset = to, Leads(box, k, from, to),
         \A i, j \in DOMAIN box : i < j /\ IsChunk(box[i], k) => IsChunk(box[j], k)
  PROVE  Leads(Append(box, d), k, from, End(d))
<1> DEFINE new == Append(box, d)
           n == Len(box)
<1>1. /\ n \in Nat /\ DOMAIN box = 1 .. n /\ DOMAIN new = 1 .. n + 1
      /\ \A i \in 1 .. n : new[i] = box[i]
      /\ new[n + 1] = d
  BY AppendBox
<1> HIDE DEF new, n
<1>2. ~ \A i \in DOMAIN new : ~IsChunk(new[i], k)
  BY <1>1
<1>3. ASSUME NEW i \in DOMAIN new, IsChunk(new[i], k)
      PROVE  /\ i - 1 \notin DOMAIN new \/ ~IsChunk(new[i - 1], k) => new[i].byte_offset = from
             /\ i + 1 \notin DOMAIN new \/ ~IsChunk(new[i + 1], k) => End(new[i]) = End(d)
             /\ i + 1 \in DOMAIN new /\ IsChunk(new[i + 1], k) =>
                  new[i + 1].byte_offset = End(new[i])
  <2>1. CASE i = n + 1
    <3>1. new[i] = d /\ i + 1 \notin DOMAIN new
      BY <1>1, <2>1
    <3>2. i - 1 \notin DOMAIN new \/ ~IsChunk(new[i - 1], k) =>
            \A j \in DOMAIN box : ~IsChunk(box[j], k)
      <4>1. \A j \in DOMAIN box : n \in DOMAIN box /\ (j = n \/ j < n)
        BY <1>1
      <4>2. n \in DOMAIN box => i - 1 = n /\ n \in DOMAIN new /\ new[n] = box[n]
        BY <1>1, <2>1
      <4> QED BY <4>1, <4>2
    <3> QED BY <3>1, <3>2 DEF Leads
  <2>2. CASE i # n + 1
    <3>1. i \in DOMAIN box /\ new[i] = box[i] /\ IsChunk(box[i], k)
      BY <1>1, <1>3, <2>2
    <3>2. /\ i - 1 \in DOMAIN box => i - 1 \in DOMAIN new /\ new[i - 1] = box[i - 1]
          /\ i + 1 \in DOMAIN box => new[i + 1] = box[i + 1] /\ i < i + 1
          /\ i + 1 \in DOMAIN new
          /\ i + 1 \notin DOMAIN box => new[i + 1] = d
      BY <1>1, <3>1
    <3> QED BY <3>1, <3>2 DEF Leads
  <2> QED BY <2>1, <2>2
<1>4. Leads(new, k, from, End(d))
  BY <1>2, <1>3 DEF Leads
<1> QED BY <1>4 DEF new

(* The first chunk begins where the chunks lead from, and the others go on *)
(* from its end.                                                           *)
LEMMA LeadsTailChunk ==
  ASSUME NEW D, NEW box \in Seq(D), box # <<>>, NEW k, NEW from, NEW to,
         IsChunk(Head(box), k), Leads(box, k, from, to),
         \A i, j, l \in DOMAIN box :
           i < j /\ j < l /\ IsChunk(box[i], k) /\ IsChunk(box[l], k) => IsChunk(box[j], k)
  PROVE  /\ Head(box).byte_offset = from
         /\ Leads(Tail(box), k, End(Head(box)), to)
<1> DEFINE new == Tail(box)
           n == Len(box)
<1>1. /\ n \in Nat \ {0} /\ DOMAIN box = 1 .. n /\ DOMAIN new = 1 .. n - 1
      /\ \A i \in 1 .. n - 1 : new[i] = box[i + 1]
      /\ Head(box) = box[1] /\ 1 \in DOMAIN box /\ IsChunk(box[1], k)
      /\ 1 - 1 \notin DOMAIN box
  BY TailBox
<1> HIDE DEF new, n
<1>2. /\ box[1].byte_offset = from
      /\ 1 + 1 \notin DOMAIN box \/ ~IsChunk(box[1 + 1], k) => End(box[1]) = to
      /\ 1 + 1 \in DOMAIN box /\ IsChunk(box[1 + 1], k) => box[1 + 1].byte_offset = End(box[1])
  BY <1>1 DEF Leads
<1>3. (\A i \in DOMAIN new : ~IsChunk(new[i], k)) => End(box[1]) = to
  <2>1. 1 + 1 \in DOMAIN box => 1 \in DOMAIN new /\ new[1] = box[1 + 1]
    BY <1>1
  <2> QED BY <1>2, <2>1
<1>4. ASSUME NEW i \in DOMAIN new, IsChunk(new[i], k)
      PROVE  /\ i - 1 \notin DOMAIN new \/ ~IsChunk(new[i - 1], k) =>
                  new[i].byte_offset = End(box[1])
             /\ i + 1 \notin DOMAIN new \/ ~IsChunk(new[i + 1], k) => End(new[i]) = to
             /\ i + 1 \in DOMAIN new /\ IsChunk(new[i + 1], k) =>
                  new[i + 1].byte_offset = End(new[i])
  <2>1. i + 1 \in DOMAIN box /\ new[i] = box[i + 1] /\ IsChunk(box[i + 1], k)
    BY <1>1, <1>4
  <2>2. /\ (i + 1) + 1 \notin DOMAIN box \/ ~IsChunk(box[(i + 1) + 1], k) =>
             End(box[i + 1]) = to
        /\ (i + 1) + 1 \in DOMAIN box /\ IsChunk(box[(i + 1) + 1], k) =>
             box[(i + 1) + 1].byte_offset = End(box[i + 1])
    BY <2>1 DEF Leads
  <2>3. /\ i + 1 \in DOMAIN new => new[i + 1] = box[(i + 1) + 1]
        /\ i + 1 \in DOMAIN new <=> (i + 1) + 1 \in DOMAIN box
    BY <1>1
  <2>4. CASE i = 1
    BY <1>2, <2>1, <2>2, <2>3, <2>4, <1>1
  <2>5. CASE i # 1
    <3>1. i - 1 \in DOMAIN new /\ new[i - 1] = box[i] /\ i \in DOMAIN box /\ 1 < i /\ i < i + 1
      BY <1>1, <2>5
    <3>2. IsChunk(box[i], k)
      BY <1>1, <2>1, <3>1
    <3> QED BY <2>1, <2>2, <2>3, <3>1, <3>2
  <2> QED BY <2>4, <2>5
<1>5. Leads(new, k, End(box[1]), to)
  BY <1>3, <1>4 DEF Leads
<1> QED BY <1>1, <1>2, <1>5 DEF new

(* Whether a server is still to read its prepare datagram                  *)
LEMMA PendingTail ==
  ASSUME NEW D, NEW box \in Seq(D), box # <<>>, NEW s, NEW k
  PROVE  Pending(box, s, k) <=> IsPrepare(Head(box), s, k) \/ Pending(Tail(box), s, k)
<1> DEFINE new == Tail(box)
           n == Len(box)
<1>1. /\ n \in Nat \ {0} /\ DOMAIN box = 1 .. n /\ DOMAIN new = 1 .. n - 1
      /\ \A i \in 1 .. n - 1 : new[i] = box[i + 1]
      /\ Head(box) = box[1] /\ 1 \in DOMAIN box
  BY TailBox
<1> HIDE DEF new, n
<1>2. /\ \A i \in DOMAIN box : i = 1 \/ (i - 1 \in DOMAIN new /\ new[i - 1] = box[i])
      /\ \A i \in DOMAIN new : i + 1 \in DOMAIN box /\ new[i] = box[i + 1]
  BY <1>1
<1>3. Pending(box, s, k) <=> IsPrepare(Head(box), s, k) \/ Pending(new, s, k)
  BY <1>1, <1>2 DEF Pending
<1> QED BY <1>3 DEF new

LEMMA PendingAppend ==
  ASSUME NEW D, NEW box \in Seq(D), NEW d \in D, NEW s, NEW k
  PROVE  Pending(Append(box, d), s, k) <=> Pending(box, s, k) \/ IsPrepare(d, s, k)
<1> DEFINE new == Append(box, d)
           n == Len(box)
<1>1. /\ n \in Nat /\ DOMAIN box = 1 .. n /\ DOMAIN new = 1 .. n + 1
      /\ \A i \in 1 .. n : new[i] = box[i]
      /\ new[n + 1] = d
  BY AppendBox
<1> HIDE DEF new, n
<1>2. /\ \A i \in DOMAIN box : i \in DOMAIN new /\ new[i] = box[i]
      /\ \A i \in DOMAIN new : i \in DOMAIN box \/ new[i] = d
      /\ n + 1 \in DOMAIN new
  BY <1>1
<1>3. Pending(new, s, k) <=> Pending(box, s, k) \/ IsPrepare(d, s, k)
  BY <1>1, <1>2 DEF Pending
<1> QED BY <1>3 DEF new

(* What a broadcast does to one server *)
LEMMA SendCases ==
  ASSUME missed \in [Servers -> SUBSET Nat], update_key \in Nat \ {0},
         NEW datagram, NEW addressees, Send(datagram, addressees), NEW s \in Servers
  PROVE  /\ missed[s] \subseteq missed'[s]
         /\ \/ inbox'[s] = inbox[s] /\ (s \in addressees => update_key \in missed'[s])
            \/ inbox'[s] = Append(inbox[s], datagram)
            \/ inbox'[s] = <<>> /\ 1 .. update_key \subseteq missed'[s]
<1>1. PICK heard \in SUBSET {t \in Servers : running[t]} :
        /\ inbox' = [t \in Servers |->
             IF t \notin heard THEN inbox[t]
             ELSE IF Overrun(t) THEN <<>>
             ELSE Append(inbox[t], datagram)]
        /\ missed' = [t \in Servers |->
             missed[t] \cup {k \in 1 .. update_key :
               \/ k = update_key /\ t \in addressees \ heard
               \/ t \in heard /\ Overrun(t)}]
  BY DEF Send
<1>2. /\ inbox'[s] = IF s \notin heard THEN inbox[s]
                     ELSE IF Overrun(s) THEN <<>>
                     ELSE Append(inbox[s], datagram)
      /\ missed'[s] = missed[s] \cup {k \in 1 .. update_key :
                        \/ k = update_key /\ s \in addressees \ heard
                        \/ s \in heard /\ Overrun(s)}
  BY <1>1
<1>3. update_key \in 1 .. update_key
  OBVIOUS
<1> QED BY <1>2, <1>3

LEMMA BoxKeys ==
  ASSUME NEW box \in Seq(Datagram)
  PROVE  \A i \in DOMAIN box : box[i] \in Datagram /\ box[i].key \in Nat
<1>1. \A d \in Datagram : d.key \in Nat
  BY DEF Datagram
<1>2. \A i \in DOMAIN box : box[i] \in Datagram
  OBVIOUS
<1> QED BY <1>1, <1>2

(* Every datagram of the client follows those before it. *)
LEMMA SendKeepsOrder ==
  ASSUME IInv, OrderInv, NEW datagram \in Datagram, NEW addressees,
         Send(datagram, addressees), UNCHANGED <<pc, sent, active_update_info>>,
         datagram.key = update_key,
         \/ pc = "prepare" /\ datagram.kind = "prepare"
         \/ pc = "update" /\ datagram.kind = "update"
  PROVE  OrderInv'
<1>1. sent # <<>> /\ sent \in Seq(Offers)
  BY DEF IInv, ClientInv, TypeOK
<1>2. /\ update_key \in Nat \ {0} /\ DOMAIN sent = 1 .. update_key /\ update_key' = update_key
      /\ missed \in [Servers -> SUBSET Nat] /\ inbox \in [Servers -> Seq(Datagram)]
  BY <1>1 DEF update_key, IInv, TypeOK
<1> SUFFICES ASSUME NEW s \in Servers
             PROVE  /\ Ordered(inbox'[s])
                    /\ \A i \in DOMAIN inbox'[s] :
                         /\ inbox'[s][i].key <= update_key
                         /\ pc = "prepare" => ~IsChunk(inbox'[s][i], update_key)
                         /\ active_update_info[s] # None =>
                              active_update_info[s].key <= inbox'[s][i].key
  BY <1>2 DEF OrderInv
<1>3. /\ Ordered(inbox[s])
      /\ \A i \in DOMAIN inbox[s] :
           /\ inbox[s][i].key <= update_key
           /\ pc = "prepare" => ~IsChunk(inbox[s][i], update_key)
           /\ active_update_info[s] # None => active_update_info[s].key <= inbox[s][i].key
  BY DEF OrderInv
<1>4. CASE inbox'[s] = inbox[s]
  BY <1>3, <1>4
<1>5. CASE inbox'[s] = <<>>
  BY <1>5 DEF Ordered
<1>6. CASE inbox'[s] = Append(inbox[s], datagram)
  <2> DEFINE box == inbox[s]
             new == inbox'[s]
  <2>1. box \in Seq(Datagram) /\ \A i \in DOMAIN box : box[i].key \in Nat
    BY <1>2, BoxKeys
  <2>2. \A i \in DOMAIN box : \/ box[i].key < datagram.key
                              \/ /\ box[i].key = datagram.key
                                 /\ box[i].kind = "update" => datagram.kind = "update"
    <3> SUFFICES ASSUME NEW i \in DOMAIN box, ~(box[i].key < datagram.key)
                 PROVE  /\ box[i].key = datagram.key
                        /\ box[i].kind = "update" => datagram.kind = "update"
      OBVIOUS
    <3>1. box[i].key \in Nat /\ box[i].key <= update_key
      BY <1>3, <2>1
    <3>2. box[i].key = update_key
      BY <1>2, <3>1
    <3> QED BY <1>3, <3>2 DEF IsChunk
  <2>3. Ordered(new)
    BY <1>3, <1>6, <2>1, <2>2, OrderedAppend
  <2>4. \A i \in DOMAIN new : new[i] = datagram \/ (i \in DOMAIN box /\ new[i] = box[i])
    BY <1>6, <2>1
  <2>5. pc = "prepare" => ~IsChunk(datagram, update_key)
    BY DEF IsChunk
  <2>6. active_update_info[s] # None => active_update_info[s].key <= update_key
    <3>1. active_update_info[s] # None => active_update_info[s].key \in DOMAIN sent
      BY DEF IInv, ActiveInv
    <3> QED BY <1>2, <3>1
  <2>7. update_key <= update_key
    BY <1>2
  <2> HIDE DEF box, new
  <2> QED BY <1>3, <2>3, <2>4, <2>5, <2>6, <2>7 DEF box, new
<1> QED BY <1>2, <1>4, <1>5, <1>6, SendCases

(* A broadcast that does not belong to an update leaves it on its way. *)
LEMMA SendOther ==
  ASSUME IInv, sent # <<>>, NEW datagram \in Datagram, NEW addressees,
         Send(datagram, addressees), UNCHANGED <<sent, serverVars>>,
         NEW s \in Servers, NEW k \in DOMAIN sent, k \notin missed'[s], OnItsWay(s, k),
         ~IsChunk(datagram, k), ~IsPrepare(datagram, s, k), SentUpTo(k)' = SentUpTo(k)
  PROVE  OnItsWay(s, k)'
<1>1. /\ update_key \in Nat \ {0} /\ DOMAIN sent = 1 .. update_key
      /\ missed \in [Servers -> SUBSET Nat] /\ inbox[s] \in Seq(Datagram)
  <2>1. sent \in Seq(Offers) /\ inbox \in [Servers -> Seq(Datagram)]
    BY DEF IInv, TypeOK
  <2>2. update_key \in Nat \ {0} /\ DOMAIN sent = 1 .. update_key
    BY <2>1 DEF update_key
  <2>3. missed \in [Servers -> SUBSET Nat]
    BY DEF IInv, TypeOK
  <2> QED BY <2>1, <2>2, <2>3
<1>2. inbox'[s] = inbox[s] \/ inbox'[s] = Append(inbox[s], datagram)
  BY <1>1, SendCases
<1>3. /\ Pending(inbox'[s], s, k) <=> Pending(inbox[s], s, k)
      /\ \A from, to : Leads(inbox[s], k, from, to) => Leads(inbox'[s], k, from, to)
  <2>1. CASE inbox'[s] = inbox[s]
    BY <2>1
  <2>2. CASE inbox'[s] = Append(inbox[s], datagram)
    <3>1. Pending(inbox'[s], s, k) <=> Pending(inbox[s], s, k)
      BY <1>1, <2>2, PendingAppend
    <3>2. ASSUME NEW from, NEW to, Leads(inbox[s], k, from, to)
          PROVE  Leads(inbox'[s], k, from, to)
      BY <1>1, <2>2, <3>2, LeadsAppendOther
    <3> QED BY <3>1, <3>2
  <2> QED BY <1>2, <2>1, <2>2
<1>4. UNCHANGED <<active_update_info, installed>>
  BY DEF serverVars
<1> QED BY <1>3, <1>4 DEF OnItsWay, HasInstalled

(* A server that hears its prepare datagram is still to begin the update,  *)
(* of which no chunk has been sent.                                        *)
LEMMA PrepareKeepsHeard ==
  ASSUME IInv, HeardInv, PrepareServer
  PROVE  HeardInv'
<1> DEFINE datagram == [kind |-> "prepare", server |-> next_server, key |-> update_key,
                        offer |-> sent[update_key]]
<1>1. /\ pc = "prepare" /\ next_server <= NumServers
      /\ Send(datagram, {next_server})
      /\ next_server' = next_server + 1
      /\ UNCHANGED <<pc, sent, update_byte_offset, serverVars>>
  BY DEF PrepareServer
<1>2. /\ sent # <<>> /\ sent \in Seq(Offers)
      /\ inbox \in [Servers -> Seq(Datagram)] /\ missed \in [Servers -> SUBSET Nat]
  BY <1>1 DEF IInv, ClientInv, TypeOK
<1>3. /\ update_key \in Nat \ {0} /\ DOMAIN sent = 1 .. update_key /\ update_key' = update_key
      /\ sent[update_key] \in Offers
  BY <1>1, <1>2 DEF update_key
<1>4. next_server \in Servers
  BY <1>1, ServersAssumption DEF IInv, TypeOK, Servers
<1>5. datagram \in Datagram
  BY <1>3, <1>4 DEF Datagram
<1>6. /\ datagram.key = update_key /\ datagram.kind = "prepare"
      /\ datagram.server = next_server
  OBVIOUS
<1> HIDE DEF datagram
<1>7. UNCHANGED <<active_update_info, installed>>
  BY <1>1 DEF serverVars
<1>8. OrderInv'
  BY <1>1, <1>5, <1>6, <1>7, SendKeepsOrder DEF HeardInv
<1>9. UnfinishedInv'
  BY <1>7 DEF HeardInv, UnfinishedInv
<1>10. StreamInv'
  <2> SUFFICES ASSUME NEW s \in Servers, NEW k \in DOMAIN sent, k \notin missed'[s],
                      Newer(sent[k].version, current_version), Asked(s, k)'
               PROVE  OnItsWay(s, k)'
    BY <1>1 DEF StreamInv
  <2>1. SentUpTo(k)' = SentUpTo(k)
    BY <1>1, <1>3 DEF SentUpTo
  <2>2. ~IsChunk(datagram, k)
    BY <1>6 DEF IsChunk
  <2>3. /\ missed[s] \subseteq missed'[s]
        /\ \/ inbox'[s] = inbox[s] /\ (s \in {next_server} => update_key \in missed'[s])
           \/ inbox'[s] = Append(inbox[s], datagram)
           \/ inbox'[s] = <<>> /\ 1 .. update_key \subseteq missed'[s]
    BY <1>1, <1>2, <1>3, SendCases
  <2>4. CASE k = update_key /\ s = next_server
    <3>1. inbox'[s] = Append(inbox[s], datagram)
      BY <1>3, <2>3, <2>4
    <3>2. Pending(inbox'[s], s, k)
      BY <1>2, <1>5, <1>6, <2>4, <3>1, PendingAppend DEF IsPrepare
    <3>3. SentUpTo(k)' = 0
      BY <1>1, <1>3, <2>4 DEF SentUpTo
    <3>4. Leads(inbox'[s], k, 0, 0)
      BY <1>1, <1>3, <1>8, <2>4 DEF OrderInv, Leads
    <3> QED BY <3>2, <3>3, <3>4 DEF OnItsWay
  <2>5. CASE ~(k = update_key /\ s = next_server)
    <3>1. ~IsPrepare(datagram, s, k)
      BY <1>6, <2>5 DEF IsPrepare
    <3>2. Asked(s, k)
      <4>1. k < update_key \/ s < next_server + 1
        BY <1>1, <1>3 DEF Asked
      <4>2. s \in Nat /\ next_server \in Nat /\ k \in 1 .. update_key
        BY <1>3, <1>4, ServersAssumption DEF Servers
      <4> QED BY <1>3, <2>5, <4>1, <4>2 DEF Asked
    <3>3. OnItsWay(s, k)
      BY <2>3, <3>2 DEF HeardInv, StreamInv
    <3> QED BY <1>1, <1>2, <1>5, <2>1, <2>2, <3>1, <3>3, SendOther
  <2> QED BY <2>4, <2>5
<1> QED BY <1>8, <1>9, <1>10 DEF HeardInv

(* The next chunk of the update takes what a server has not read as far as *)
(* the client is.                                                          *)
LEMMA UpdateKeepsHeard ==
  ASSUME IInv, HeardInv, UpdateServers
  PROVE  HeardInv'
<1> DEFINE to == ChunkEnd
           datagram == [kind |-> "update", key |-> update_key,
                        byte_offset |-> update_byte_offset,
                        len |-> to - update_byte_offset,
                        pause |-> IF to = next_threshold_byte_offset THEN "long" ELSE "short"]
<1>1. /\ pc = "update" /\ update_byte_offset < update_len
      /\ Send(datagram, Servers)
      /\ update_byte_offset' = to
      /\ UNCHANGED <<pc, sent, next_server, serverVars>>
  BY DEF UpdateServers
<1>2. /\ sent # <<>> /\ sent \in Seq(Offers)
      /\ inbox \in [Servers -> Seq(Datagram)] /\ missed \in [Servers -> SUBSET Nat]
      /\ update_byte_offset \in Nat
  BY <1>1 DEF IInv, ClientInv, TypeOK
<1>3. /\ update_key \in Nat \ {0} /\ DOMAIN sent = 1 .. update_key /\ update_key' = update_key
      /\ update_len \in Nat
  BY <1>1, <1>2, CurrentOffer DEF update_key
<1>4. /\ to \in Nat /\ update_byte_offset <= to
      /\ to <= update_byte_offset + UPDATE_BYTES_SIZE
  <2>1. next_threshold_byte_offset = ThresholdAfter(update_byte_offset, update_len)
    BY <1>1 DEF IInv, ClientInv
  <2>2. next_threshold_byte_offset \in Nat /\ update_byte_offset < next_threshold_byte_offset
    BY <1>1, <1>2, <1>3, <2>1, ThresholdFacts
  <2> QED BY <1>2, <2>2, SizesAssumption DEF ChunkEnd, Least
<1>5. datagram \in Datagram
  <2>1. to - update_byte_offset \in 0 .. UPDATE_BYTES_SIZE
    BY <1>2, <1>4, SizesAssumption
  <2> HIDE DEF to
  <2> QED BY <1>2, <1>3, <2>1 DEF Datagram
<1>6. /\ datagram.key = update_key /\ datagram.kind = "update"
      /\ datagram.byte_offset = update_byte_offset /\ End(datagram) = to
  <2>1. update_byte_offset + (to - update_byte_offset) = to
    BY <1>2, <1>4
  <2> HIDE DEF to
  <2> QED BY <2>1 DEF End
<1> HIDE DEF datagram, to
<1>7. UNCHANGED <<active_update_info, installed>>
  BY <1>1 DEF serverVars
<1>8. OrderInv'
  BY <1>1, <1>5, <1>6, <1>7, SendKeepsOrder DEF HeardInv
<1>9. UnfinishedInv'
  BY <1>7 DEF HeardInv, UnfinishedInv
<1>10. StreamInv'
  <2> SUFFICES ASSUME NEW s \in Servers, NEW k \in DOMAIN sent, k \notin missed'[s],
                      Newer(sent[k].version, current_version)
               PROVE  OnItsWay(s, k)'
    BY <1>1 DEF StreamInv
  <2>1. ~IsPrepare(datagram, s, k)
    BY <1>6 DEF IsPrepare
  <2>2. /\ missed[s] \subseteq missed'[s]
        /\ \/ inbox'[s] = inbox[s] /\ (s \in Servers => update_key \in missed'[s])
           \/ inbox'[s] = Append(inbox[s], datagram)
           \/ inbox'[s] = <<>> /\ 1 .. update_key \subseteq missed'[s]
    BY <1>1, <1>2, <1>3, SendCases
  <2>3. OnItsWay(s, k)
    BY <1>1, <2>2 DEF HeardInv, StreamInv, Asked
  <2>4. CASE k = update_key
    <3>1. inbox'[s] = Append(inbox[s], datagram) /\ inbox[s] \in Seq(Datagram)
      BY <1>2, <1>3, <2>2, <2>4
    <3>2. SentUpTo(k) = update_byte_offset /\ SentUpTo(k)' = to /\ sent[k].update_len = update_len
      BY <1>1, <1>3, <2>4 DEF SentUpTo, update_len
    <3>3. Pending(inbox'[s], s, k) <=> Pending(inbox[s], s, k)
      BY <1>5, <2>1, <3>1, PendingAppend
    <3>4. IsChunk(datagram, k)
      BY <1>6, <2>4 DEF IsChunk
    <3>5. \A i, j \in DOMAIN inbox[s] :
            i < j /\ IsChunk(inbox[s][i], k) => IsChunk(inbox[s][j], k)
      <4> SUFFICES ASSUME NEW i \in DOMAIN inbox[s], NEW j \in DOMAIN inbox[s], i < j,
                          IsChunk(inbox[s][i], k)
                   PROVE  IsChunk(inbox[s][j], k)
        OBVIOUS
      <4>1. inbox[s][j].key \in Nat /\ inbox[s][j].key <= k /\ Ordered(inbox[s]) /\ k \in Nat
        BY <1>3, <2>4, <3>1, BoxKeys DEF HeardInv, OrderInv
      <4> QED BY <4>1, ChunksFollow
    <3>6. ASSUME NEW from, Leads(inbox[s], k, from, SentUpTo(k))
          PROVE  Leads(inbox'[s], k, from, SentUpTo(k)')
      <4>1. Leads(inbox'[s], k, from, End(datagram))
        BY <1>5, <1>6, <3>1, <3>2, <3>4, <3>5, <3>6, LeadsAppendChunk
      <4> QED BY <1>6, <3>2, <4>1
    <3>7. SentUpTo(k) # sent[k].update_len
      BY <1>1, <1>2, <1>3, <3>2
    <3> QED BY <1>7, <2>3, <3>3, <3>6, <3>7 DEF OnItsWay
  <2>5. CASE k # update_key
    <3>1. ~IsChunk(datagram, k)
      BY <1>6, <2>5 DEF IsChunk
    <3>2. k < update_key
      BY <1>3, <2>5
    <3>3. SentUpTo(k)' = SentUpTo(k)
      BY <1>1, <1>3, <3>2 DEF SentUpTo
    <3> QED BY <1>1, <1>2, <1>5, <2>1, <2>3, <3>1, <3>3, SendOther
  <2> QED BY <2>4, <2>5
<1> QED BY <1>8, <1>9, <1>10 DEF HeardInv

(* Steps of the client that send nothing leave every update where it is. *)
LEMMA QuietKeepsHeard ==
  ASSUME IInv, HeardInv, UNCHANGED <<serverVars, busVars>>,
         pc' = "prepare" => update_key < update_key',
         update_key' \in Nat, update_key \in Nat, update_key <= update_key',
         DOMAIN sent \subseteq DOMAIN sent',
         \A k \in DOMAIN sent' : \A s \in Servers : Asked(s, k)' =>
           k \in DOMAIN sent /\ sent'[k] = sent[k] /\ Asked(s, k) /\ SentUpTo(k)' = SentUpTo(k)
  PROVE  HeardInv'
<1>1. UNCHANGED <<inbox, missed, active_update_info, installed>>
  BY DEF serverVars, busVars
<1>2. UnfinishedInv'
  BY <1>1 DEF HeardInv, UnfinishedInv
<1>3. OrderInv'
  <2> SUFFICES ASSUME NEW s \in Servers, NEW i \in DOMAIN inbox[s]
               PROVE  /\ inbox[s][i].key <= update_key'
                      /\ pc' = "prepare" => ~IsChunk(inbox[s][i], update_key')
    BY <1>1 DEF HeardInv, OrderInv
  <2>1. inbox[s][i].key <= update_key /\ inbox[s][i].key \in Nat
    BY BoxKeys DEF HeardInv, OrderInv, IInv, TypeOK
  <2>2. \A n, old, new \in Nat : n <= old /\ old <= new => n <= new /\ (old < new => n # new)
    OBVIOUS
  <2>3. inbox[s][i].key <= update_key' /\ (pc' = "prepare" => inbox[s][i].key # update_key')
    BY <2>1, <2>2
  <2> QED BY <2>3 DEF IsChunk
<1>4. StreamInv'
  <2> SUFFICES ASSUME NEW s \in Servers, NEW k \in DOMAIN sent', k \notin missed[s],
                      Newer(sent'[k].version, current_version), Asked(s, k)'
               PROVE  OnItsWay(s, k)'
    BY <1>1 DEF StreamInv
  <2>1. k \in DOMAIN sent /\ sent'[k] = sent[k] /\ Asked(s, k) /\ SentUpTo(k)' = SentUpTo(k)
    OBVIOUS
  <2>2. OnItsWay(s, k)
    BY <2>1 DEF HeardInv, StreamInv
  <2> QED BY <1>1, <2>1, <2>2 DEF OnItsWay, HasInstalled
<1> QED BY <1>2, <1>3, <1>4 DEF HeardInv

LEMMA ClientKeepsHeard ==
  ASSUME IInv, HeardInv, ClientStart \/ AllPrepared \/ ClientDone
  PROVE  HeardInv'
<1>1. sent \in Seq(Offers) /\ UNCHANGED <<serverVars, busVars>>
  BY DEF IInv, TypeOK, ClientStart, AllPrepared, ClientDone
<1>2. update_key \in Nat /\ DOMAIN sent = 1 .. update_key
  BY <1>1 DEF update_key
<1>3. \A s \in Servers : s \in 1 .. NumServers
  BY DEF Servers
<1>4. CASE ClientStart
  <2>1. PICK offer \in Offers : sent' = Append(sent, offer)
    BY <1>4 DEF ClientStart
  <2>2. /\ update_key' = update_key + 1 /\ DOMAIN sent' = 1 .. update_key'
        /\ \A k \in DOMAIN sent : sent'[k] = sent[k]
    BY <1>1, <2>1 DEF update_key
  <2>3. pc = "idle" /\ pc' = "prepare" /\ next_server' = 1
    BY <1>4 DEF ClientStart
  <2>4. ASSUME NEW k \in DOMAIN sent', NEW s \in Servers, Asked(s, k)'
        PROVE  /\ k \in DOMAIN sent /\ sent'[k] = sent[k]
               /\ Asked(s, k) /\ SentUpTo(k)' = SentUpTo(k)
    <3>1. k < update_key'
      BY <1>3, <2>3, <2>4, ServersAssumption DEF Asked
    <3>2. k \in DOMAIN sent
      BY <1>2, <2>2, <3>1
    <3> QED BY <2>2, <2>3, <3>1, <3>2 DEF Asked, SentUpTo
  <2>5. update_key' \in Nat /\ update_key < update_key' /\ DOMAIN sent \subseteq DOMAIN sent'
    BY <1>2, <2>2
  <2> QED BY <1>1, <1>2, <2>4, <2>5, QuietKeepsHeard
<1>5. CASE AllPrepared
  <2>1. /\ pc = "prepare" /\ pc' = "update" /\ sent' = sent /\ update_key' = update_key
        /\ next_server > NumServers /\ update_byte_offset' = 0
    BY <1>5 DEF AllPrepared, update_key
  <2>2. ASSUME NEW k \in DOMAIN sent', NEW s \in Servers, Asked(s, k)'
        PROVE  /\ k \in DOMAIN sent /\ sent'[k] = sent[k]
               /\ Asked(s, k) /\ SentUpTo(k)' = SentUpTo(k)
    <3>1. s < next_server
      BY <1>3, <2>1, ServersAssumption DEF IInv, TypeOK
    <3> QED BY <2>1, <3>1 DEF Asked, SentUpTo
  <2> QED BY <1>1, <1>2, <2>1, <2>2, QuietKeepsHeard
<1>6. CASE ClientDone
  <2>1. /\ pc = "update" /\ pc' = "idle" /\ sent' = sent /\ update_key' = update_key
        /\ update_byte_offset >= update_len
    BY <1>6 DEF ClientDone, update_key
  <2>2. update_byte_offset = update_len
    BY <1>1, <2>1, CurrentOffer DEF IInv, TypeOK, ClientInv
  <2>3. ASSUME NEW k \in DOMAIN sent', NEW s \in Servers, Asked(s, k)'
        PROVE  /\ k \in DOMAIN sent /\ sent'[k] = sent[k]
               /\ Asked(s, k) /\ SentUpTo(k)' = SentUpTo(k)
    <3>1. k < update_key \/ k = update_key
      BY <1>2, <2>1
    <3> QED BY <2>1, <2>2, <3>1 DEF Asked, SentUpTo, update_len
  <2> QED BY <1>1, <1>2, <2>1, <2>3, QuietKeepsHeard
<1> QED BY <1>4, <1>5, <1>6

(* The datagram a server reads next comes before all others. *)
LEMMA HeadFirst ==
  ASSUME NEW box \in Seq(Datagram), box # <<>>, Ordered(box), NEW k \in Nat
  PROVE  /\ \A i \in DOMAIN box : Head(box).key <= box[i].key
         /\ \A i \in DOMAIN Tail(box) : \E j \in DOMAIN box : Tail(box)[i] = box[j]
         /\ \A s : IsChunk(Head(box), k) => ~Pending(box, s, k)
         /\ \A i, j, l \in DOMAIN box :
              i < j /\ j < l /\ IsChunk(box[i], k) /\ IsChunk(box[l], k) => IsChunk(box[j], k)
<1>1. /\ Head(box) = box[1] /\ 1 \in DOMAIN box
      /\ \A i \in DOMAIN box : i = 1 \/ 1 < i
      /\ \A i \in DOMAIN Tail(box) : i + 1 \in DOMAIN box /\ Tail(box)[i] = box[i + 1]
  BY TailBox
<1>2. \A i \in DOMAIN box : box[i].key \in Nat
  BY BoxKeys
<1>3. \A i, j \in DOMAIN box : i < j => box[i].key <= box[j].key
  BY <1>2 DEF Ordered
<1>4. \A i \in DOMAIN box : Head(box).key <= box[i].key
  BY <1>1, <1>2, <1>3
<1>5. ASSUME NEW s, IsChunk(Head(box), k), Pending(box, s, k)
      PROVE  FALSE
  <2>1. PICK i \in DOMAIN box : IsPrepare(box[i], s, k)
    BY <1>5 DEF Pending
  <2>2. /\ box[i].kind = "prepare" /\ box[i].key = k
        /\ box[1].kind = "update" /\ box[1].key = k
    BY <1>1, <1>5, <2>1 DEF IsPrepare, IsChunk
  <2>3. 1 < i
    BY <1>1, <2>2
  <2>4. IsChunk(box[i], k)
    BY <1>1, <1>5, <2>2, <2>3, ChunksFollow
  <2> QED BY <2>2, <2>4 DEF IsChunk
<1>6. ASSUME NEW i \in DOMAIN box, NEW j \in DOMAIN box, NEW l \in DOMAIN box,
             i < j, j < l, IsChunk(box[i], k), IsChunk(box[l], k)
      PROVE  IsChunk(box[j], k)
  <2>1. box[l].key = k /\ box[j].key <= box[l].key /\ box[j].key \in Nat
    BY <1>2, <1>3, <1>6 DEF IsChunk
  <2> QED BY <1>6, <2>1, ChunksFollow
<1> QED BY <1>1, <1>4, <1>5, <1>6

(* Reading what does not belong to an update leaves it on its way. *)
LEMMA ReadOther ==
  ASSUME NEW s \in Servers, NEW k, inbox[s] \in Seq(Datagram), inbox[s] # <<>>,
         inbox'[s] = Tail(inbox[s]), OnItsWay(s, k), HasInstalled(s, k) => HasInstalled(s, k)',
         UNCHANGED sent, SentUpTo(k)' = SentUpTo(k),
         ~IsChunk(Head(inbox[s]), k), ~IsPrepare(Head(inbox[s]), s, k),
         active_update_info[s] # None /\ active_update_info[s].key = k =>
           \/ active_update_info'[s] = active_update_info[s]
           \/ ~Leads(inbox[s], k, active_update_info[s].next_byte_offset, SentUpTo(k))
  PROVE  OnItsWay(s, k)'
<1>1. Pending(inbox'[s], s, k) <=> Pending(inbox[s], s, k)
  <2>1. Pending(inbox[s], s, k) <=>
          IsPrepare(Head(inbox[s]), s, k) \/ Pending(Tail(inbox[s]), s, k)
    BY PendingTail
  <2> QED BY <2>1
<1>2. ASSUME NEW from, NEW to, Leads(inbox[s], k, from, to)
      PROVE  Leads(inbox'[s], k, from, to)
  BY <1>2, LeadsTailOther
<1> QED BY <1>1, <1>2 DEF OnItsWay

(* What a server does with an update it has missed nothing of when it      *)
(* reads a chunk of it: the chunk is the next one.                         *)
LEMMA ReadChunk ==
  ASSUME IInv, HeardInv, NEW s \in Servers, NEW k \in DOMAIN sent,
         inbox[s] # <<>>, IsChunk(Head(inbox[s]), k), OnItsWay(s, k),
         ~(HasInstalled(s, k) /\ SentUpTo(k) = sent[k].update_len)
  PROVE  /\ active_update_info[s] # None
         /\ active_update_info[s].key = k
         /\ active_update_info[s].next_byte_offset = Head(inbox[s]).byte_offset
         /\ ~Pending(Tail(inbox[s]), s, k)
         /\ Leads(Tail(inbox[s]), k, End(Head(inbox[s])), SentUpTo(k))
         /\ End(Head(inbox[s])) = sent[k].update_len => SentUpTo(k) = sent[k].update_len
<1> DEFINE box == inbox[s]
<1>1. box \in Seq(Datagram) /\ Ordered(box) /\ k \in Nat /\ sent \in Seq(Offers)
  BY DEF IInv, TypeOK, HeardInv, OrderInv
<1>2. /\ ~Pending(box, s, k)
      /\ \A i, j, l \in DOMAIN box :
           i < j /\ j < l /\ IsChunk(box[i], k) /\ IsChunk(box[l], k) => IsChunk(box[j], k)
  BY <1>1, HeadFirst
<1>3. /\ active_update_info[s] # None
      /\ active_update_info[s].key = k
      /\ Leads(box, k, active_update_info[s].next_byte_offset, SentUpTo(k))
  BY <1>2 DEF OnItsWay
<1>4. /\ active_update_info[s].next_byte_offset = Head(box).byte_offset
      /\ Leads(Tail(box), k, End(Head(box)), SentUpTo(k))
  BY <1>1, <1>2, <1>3, LeadsTailChunk
<1>5. ~Pending(Tail(box), s, k)
  BY <1>1, <1>2, PendingTail
<1>6. ASSUME End(Head(box)) = sent[k].update_len
      PROVE  SentUpTo(k) = sent[k].update_len
  <2>1. Head(box) = box[1] /\ 1 \in DOMAIN box
    BY <1>1
  <2>2. CASE 1 + 1 \in DOMAIN box /\ IsChunk(box[1 + 1], k)
    <3>1. box[1 + 1].byte_offset = End(Head(box))
      BY <1>3, <2>1, <2>2 DEF Leads
    <3> DEFINE d == box[1 + 1]
    <3>2. /\ d \in Datagram /\ d.kind = "update" /\ d.key = k
          /\ ChunkOf(d, sent[k].update_len)
      BY <1>1, <2>2, BoxKeys DEF IsChunk, IInv, ChunksInv
    <3>3. d.byte_offset \in Nat /\ d.len \in Nat
      BY <3>2 DEF Datagram
    <3>4. sent[k].update_len \in Nat
      BY <1>1, OffersAssumption DEF Offer
    <3>5. /\ d.byte_offset < d.byte_offset + d.len
          /\ d.byte_offset + d.len <= ThresholdAfter(d.byte_offset, sent[k].update_len)
      BY <3>2 DEF ChunkOf
    <3>6. d.byte_offset = sent[k].update_len
      BY <1>6, <3>1
    <3> HIDE DEF d
    <3>7. ThresholdAfter(d.byte_offset, sent[k].update_len) <= sent[k].update_len
      <4>1. \A x, len \in Int : Least(x, len) <= len
        BY DEF Least
      <4>2. (d.byte_offset \div UPDATE_BYTES_PROCESSING_THRESHOLD + 1)
              * UPDATE_BYTES_PROCESSING_THRESHOLD \in Int
        BY <3>3, SizesAssumption
      <4> QED BY <3>4, <4>1, <4>2 DEF ThresholdAfter
    <3>8. \A a, b, c, e \in Int : a < b /\ b <= c /\ c <= e => a # e
      OBVIOUS
    <3>9. ThresholdAfter(d.byte_offset, sent[k].update_len) \in Int
      BY <3>3, <3>4, SizesAssumption DEF ThresholdAfter, Least
    <3>10. d.byte_offset + d.len \in Int
      BY <3>3
    <3> QED BY <3>3, <3>4, <3>5, <3>6, <3>7, <3>8, <3>9, <3>10
  <2>3. CASE ~(1 + 1 \in DOMAIN box /\ IsChunk(box[1 + 1], k))
    BY <1>3, <1>6, <2>1, <2>3 DEF Leads
  <2> QED BY <2>2, <2>3
<1> QED BY <1>3, <1>4, <1>5, <1>6

(* What a server makes of the datagram it reads *)
LEMMA ReceiveCases ==
  ASSUME IInv, NEW s \in Servers, ServerReceive(s),
         NEW datagram, datagram = Head(inbox[s])
  PROVE  /\ \A t \in Servers \ {s} :
              /\ inbox'[t] = inbox[t] /\ active_update_info'[t] = active_update_info[t]
              /\ installed'[t] = installed[t]
         /\ inbox'[s] = Tail(inbox[s]) /\ installed[s] \subseteq installed'[s]
         /\ \/ /\ IsChunk(datagram, active_update_info[s].key) /\ active_update_info[s] # None
               /\ \/ /\ datagram.byte_offset # active_update_info[s].next_byte_offset
                     /\ active_update_info'[s] = None
                  \/ /\ datagram.byte_offset = active_update_info[s].next_byte_offset
                     /\ End(datagram) = active_update_info[s].byte_len
                     /\ active_update_info'[s] = None
                     /\ \E update \in installed'[s] : update.key = datagram.key
                  \/ /\ datagram.byte_offset = active_update_info[s].next_byte_offset
                     /\ End(datagram) # active_update_info[s].byte_len
                     /\ active_update_info'[s] =
                          [active_update_info[s] EXCEPT !.next_byte_offset = End(datagram)]
            \/ /\ IsPrepare(datagram, s, datagram.key)
               /\ Newer(datagram.offer.version, current_version)
               /\ active_update_info'[s] = [key |-> datagram.key,
                    byte_len |-> datagram.offer.update_len, next_byte_offset |-> 0]
            \/ /\ active_update_info[s] = None \/ ~IsChunk(datagram, active_update_info[s].key)
               /\ IsPrepare(datagram, s, datagram.key) =>
                    ~Newer(datagram.offer.version, current_version)
               /\ active_update_info'[s] = active_update_info[s]
<1>1. /\ inbox' = [inbox EXCEPT ![s] = Tail(@)]
      /\ \/ /\ datagram.kind = "update"
            /\ active_update_info[s] # None
            /\ active_update_info[s].key = datagram.key
            /\ ProcessActiveUpdate(s, datagram)
         \/ /\ datagram.kind = "prepare"
            /\ datagram.server = s
            /\ ProcessPrepare(s, datagram)
         \/ /\ ~ \/ /\ datagram.kind = "update"
                    /\ active_update_info[s] # None
                    /\ active_update_info[s].key = datagram.key
                 \/ datagram.kind = "prepare" /\ datagram.server = s
            /\ UNCHANGED serverVars
  BY DEF ServerReceive
<1>2. /\ inbox'[s] = Tail(inbox[s])
      /\ \A t \in Servers \ {s} : inbox'[t] = inbox[t]
  BY <1>1 DEF IInv, TypeOK
<1>3. /\ active_update_info \in [Servers -> UpdateInfo \cup {None}]
      /\ DOMAIN installed = Servers /\ DOMAIN active_update_info = Servers
  BY DEF IInv, TypeOK
<1>4. CASE /\ datagram.kind = "update"
           /\ active_update_info[s] # None
           /\ active_update_info[s].key = datagram.key
           /\ ProcessActiveUpdate(s, datagram)
  <2> DEFINE info == active_update_info[s]
             next == info.next_byte_offset + datagram.len
             bytes == flash[s] \cup ({datagram.key} \X (datagram.byte_offset .. next - 1))
  <2>1. IsChunk(datagram, info.key)
    BY <1>4 DEF IsChunk
  <2>2. CASE datagram.byte_offset # info.next_byte_offset
    <3>1. /\ active_update_info' = [active_update_info EXCEPT ![s] = None]
          /\ UNCHANGED installed
      BY <1>4, <2>2 DEF ProcessActiveUpdate, Abandon
    <3> QED BY <1>2, <1>3, <1>4, <2>1, <2>2, <3>1
  <2>3. CASE datagram.byte_offset = info.next_byte_offset
    <3>1. /\ active_update_info' = [active_update_info EXCEPT ![s] =
                IF next = info.byte_len THEN None
                ELSE [info EXCEPT !.next_byte_offset = next]]
          /\ installed' = [installed EXCEPT ![s] =
                IF next = info.byte_len
                  THEN @ \cup {[key |-> info.key, bytes |-> bytes]} ELSE @]
      BY <1>4, <2>3 DEF ProcessActiveUpdate
    <3>2. End(datagram) = next
      BY <2>3 DEF End
    <3> HIDE DEF next, bytes
    <3>3. /\ active_update_info'[s] = (IF next = info.byte_len THEN None
                                       ELSE [info EXCEPT !.next_byte_offset = next])
          /\ installed'[s] = (IF next = info.byte_len
               THEN installed[s] \cup {[key |-> info.key, bytes |-> bytes]} ELSE installed[s])
          /\ \A t \in Servers \ {s} : /\ active_update_info'[t] = active_update_info[t]
                                      /\ installed'[t] = installed[t]
      BY <1>3, <3>1
    <3>4. next = info.byte_len => \E update \in installed'[s] : update.key = datagram.key
      <4>1. [key |-> info.key, bytes |-> bytes].key = datagram.key
        BY <1>4
      <4> QED BY <3>3, <4>1
    <3> QED BY <1>2, <1>4, <2>1, <2>3, <3>2, <3>3, <3>4
  <2> QED BY <2>2, <2>3
<1>5. CASE datagram.kind = "prepare" /\ datagram.server = s /\ ProcessPrepare(s, datagram)
  <2>1. IsPrepare(datagram, s, datagram.key) /\ \A k : ~IsChunk(datagram, k)
    BY <1>5 DEF IsPrepare, IsChunk
  <2>2. CASE Newer(datagram.offer.version, current_version)
    <3> DEFINE new == [key |-> datagram.key, byte_len |-> datagram.offer.update_len,
                       next_byte_offset |-> 0]
    <3>1. Activated(datagram) = new /\ new # None
      <4>1. inbox[s] \in Seq(Datagram) /\ inbox[s] # <<>>
        BY DEF IInv, TypeOK, ServerReceive
      <4>2. datagram \in Datagram
        BY <4>1
      <4>3. datagram.key \in Nat /\ datagram.offer \in Offers
        BY <1>5, <4>2 DEF Datagram
      <4>4. new \in [key : Nat, byte_len : Nat, next_byte_offset : Nat]
        BY <4>3, OffersAssumption DEF Offer
      <4> QED BY <2>2, <4>4, NoneIsNoInfo DEF Activated
    <3> HIDE DEF new
    <3>2. /\ active_update_info' = [active_update_info EXCEPT ![s] = new]
          /\ UNCHANGED installed
      BY <1>5, <3>1 DEF ProcessPrepare
    <3> QED BY <1>2, <1>3, <2>1, <2>2, <3>2 DEF new
  <2>3. CASE ~Newer(datagram.offer.version, current_version)
    <3>1. UNCHANGED <<active_update_info, installed>>
      BY <1>5, <2>3 DEF ProcessPrepare, Activated, serverVars
    <3> QED BY <1>2, <2>1, <2>3, <3>1
  <2> QED BY <2>2, <2>3
<1>6. CASE /\ ~ \/ /\ datagram.kind = "update"
                   /\ active_update_info[s] # None
                   /\ active_update_info[s].key = datagram.key
                \/ datagram.kind = "prepare" /\ datagram.server = s
           /\ UNCHANGED serverVars
  <2>1. UNCHANGED <<active_update_info, installed>>
    BY <1>6 DEF serverVars
  <2>2. /\ active_update_info[s] = None \/ ~IsChunk(datagram, active_update_info[s].key)
        /\ ~IsPrepare(datagram, s, datagram.key)
    BY <1>6 DEF IsChunk, IsPrepare
  <2> QED BY <1>2, <2>1, <2>2
<1> QED BY <1>1, <1>4, <1>5, <1>6

(* A server that reads a datagram goes on with what it has heard whole.  An *)
(* update it would give up for a later one is finished: nothing of it is   *)
(* left to read.                                                           *)
LEMMA ReceiveKeepsHeard ==
  ASSUME IInv, HeardInv, NEW s \in Servers, ServerReceive(s)
  PROVE  HeardInv'
<1> DEFINE box == inbox[s]
           datagram == Head(inbox[s])
           info == active_update_info[s]
           Aborts == /\ datagram.byte_offset # info.next_byte_offset
                     /\ active_update_info'[s] = None
           Finishes == /\ datagram.byte_offset = info.next_byte_offset
                       /\ End(datagram) = info.byte_len
                       /\ active_update_info'[s] = None
                       /\ \E update \in installed'[s] : update.key = datagram.key
           Goes == /\ datagram.byte_offset = info.next_byte_offset
                   /\ End(datagram) # info.byte_len
                   /\ active_update_info'[s] = [info EXCEPT !.next_byte_offset = End(datagram)]
           Reads == IsChunk(datagram, info.key) /\ info # None /\ (Aborts \/ Finishes \/ Goes)
           Begins == /\ IsPrepare(datagram, s, datagram.key)
                     /\ Newer(datagram.offer.version, current_version)
                     /\ active_update_info'[s] = [key |-> datagram.key,
                          byte_len |-> datagram.offer.update_len, next_byte_offset |-> 0]
           Skips == /\ info = None \/ ~IsChunk(datagram, info.key)
                    /\ IsPrepare(datagram, s, datagram.key) =>
                         ~Newer(datagram.offer.version, current_version)
                    /\ active_update_info'[s] = info
           Step == /\ active_update_info'[s] # None =>
                        /\ active_update_info'[s].next_byte_offset < active_update_info'[s].byte_len
                        /\ \A i \in DOMAIN box : active_update_info'[s].key <= box[i].key
                   /\ \A k \in DOMAIN sent :
                        Newer(sent[k].version, current_version) /\ OnItsWay(s, k) => OnItsWay(s, k)'
<1>1. /\ \A t \in Servers \ {s} :
           /\ inbox'[t] = inbox[t] /\ active_update_info'[t] = active_update_info[t]
           /\ installed'[t] = installed[t]
      /\ inbox'[s] = Tail(box) /\ installed[s] \subseteq installed'[s]
      /\ Reads \/ Begins \/ Skips
  BY ReceiveCases
<1>2. /\ UNCHANGED <<pc, sent, next_server, update_byte_offset, missed>>
      /\ box # <<>> /\ box \in Seq(Datagram) /\ sent \in Seq(Offers)
      /\ info \in UpdateInfo \cup {None}
  BY DEF ServerReceive, clientVars, IInv, TypeOK
<1>3. /\ update_key \in Nat /\ DOMAIN sent = 1 .. update_key /\ UNCHANGED update_key
      /\ \A k : SentUpTo(k)' = SentUpTo(k)
      /\ \A t, k : Asked(t, k)' <=> Asked(t, k)
  BY <1>2 DEF update_key, SentUpTo, Asked
<1>4. /\ datagram \in Datagram /\ datagram = box[1] /\ 1 \in DOMAIN box
      /\ datagram.key \in Nat
  BY <1>2, BoxKeys
<1>5. /\ Ordered(box)
      /\ \A i \in DOMAIN box :
           /\ box[i].key <= update_key
           /\ pc = "prepare" => ~IsChunk(box[i], update_key)
           /\ info # None => info.key <= box[i].key
  BY DEF HeardInv, OrderInv
<1>6. /\ \A i \in DOMAIN box : datagram.key <= box[i].key
      /\ \A i \in DOMAIN Tail(box) : \E j \in DOMAIN box : Tail(box)[i] = box[j]
  BY <1>2, <1>5, HeadFirst
<1>7. info # None =>
        /\ info.key \in DOMAIN sent /\ info.byte_len = sent[info.key].update_len
        /\ info.next_byte_offset < info.byte_len
  BY DEF IInv, ActiveInv, HeardInv, UnfinishedInv
<1>8. \A k \in DOMAIN sent : sent[k].update_len \in Nat \ {0}
  BY <1>2, OffersAssumption DEF Offer
<1>9. datagram.kind = "prepare" => datagram.key \in DOMAIN sent /\ datagram.offer = sent[datagram.key]
  BY <1>4 DEF IInv, PreparesInv
<1>10. datagram.kind = "update" =>
         /\ datagram.key \in DOMAIN sent /\ ChunkOf(datagram, sent[datagram.key].update_len)
         /\ datagram.byte_offset \in Nat /\ datagram.len \in Nat
  <2>1. datagram.kind = "update" => datagram.byte_offset \in Nat /\ datagram.len \in Nat
    BY <1>4 DEF Datagram
  <2> QED BY <1>4, <2>1 DEF IInv, ChunksInv
<1> HIDE DEF box, datagram, info, Step, Reads, Begins, Skips
<1>11. ASSUME Reads
       PROVE  Step
  <2>1. datagram.kind = "update" /\ datagram.key = info.key /\ info # None
    BY <1>11 DEF IsChunk, Reads
  <2>2. active_update_info'[s] # None =>
          /\ active_update_info'[s].key = info.key
          /\ active_update_info'[s].next_byte_offset < active_update_info'[s].byte_len
    <3> SUFFICES ASSUME Goes
                 PROVE  /\ active_update_info'[s].key = info.key
                        /\ active_update_info'[s].next_byte_offset < active_update_info'[s].byte_len
      BY <1>11 DEF Reads
    <3>1. info \in UpdateInfo
      BY <1>2, <2>1
    <3>2. /\ active_update_info'[s].key = info.key
          /\ active_update_info'[s].byte_len = info.byte_len
          /\ active_update_info'[s].next_byte_offset = End(datagram)
      BY <3>1 DEF UpdateInfo
    <3> DEFINE threshold == ThresholdAfter(datagram.byte_offset, info.byte_len)
    <3>3. /\ datagram.byte_offset \in Nat /\ info.byte_len \in Nat
          /\ datagram.byte_offset < info.byte_len
      BY <1>7, <1>10, <2>1, <3>1 DEF UpdateInfo
    <3>4. threshold \in Nat /\ threshold <= info.byte_len
      BY <3>3, ThresholdFacts
    <3>5. End(datagram) <= threshold
      BY <1>7, <1>10, <2>1 DEF ChunkOf, End
    <3>6. End(datagram) \in Nat
      BY <1>10, <2>1 DEF End
    <3> HIDE DEF threshold
    <3>7. End(datagram) < info.byte_len
      BY <3>3, <3>4, <3>5, <3>6
    <3> QED BY <3>2, <3>7
  <2>3. ASSUME NEW k \in DOMAIN sent, OnItsWay(s, k)
        PROVE  OnItsWay(s, k)'
    <3>1. CASE HasInstalled(s, k) /\ SentUpTo(k) = sent[k].update_len
      BY <1>1, <1>2, <1>3, <3>1 DEF OnItsWay, HasInstalled
    <3>2. CASE k # datagram.key
      <4>1. ~IsChunk(datagram, k) /\ ~IsPrepare(datagram, s, k)
        BY <3>2 DEF IsChunk, IsPrepare
      <4>2. HasInstalled(s, k) => HasInstalled(s, k)'
        BY <1>1 DEF HasInstalled
      <4>3. info.key # k
        BY <2>1, <3>2
      <4>4. inbox'[s] = Tail(inbox[s]) /\ inbox[s] \in Seq(Datagram) /\ inbox[s] # <<>>
        BY <1>1, <1>2 DEF box
      <4>5. SentUpTo(k)' = SentUpTo(k) /\ UNCHANGED sent /\ active_update_info[s].key # k
        BY <1>2, <1>3, <4>3 DEF info
      <4>6. ~IsChunk(Head(inbox[s]), k) /\ ~IsPrepare(Head(inbox[s]), s, k)
        BY <4>1 DEF datagram
      <4> QED BY <2>3, <4>2, <4>4, <4>5, <4>6, ReadOther, Zenon
    <3>3. CASE /\ k = datagram.key
               /\ ~(HasInstalled(s, k) /\ SentUpTo(k) = sent[k].update_len)
      <4>1. IsChunk(datagram, k)
        BY <1>11, <2>1, <3>3 DEF Reads
      <4>2. /\ info.next_byte_offset = datagram.byte_offset
            /\ ~Pending(Tail(box), s, k)
            /\ Leads(Tail(box), k, End(datagram), SentUpTo(k))
            /\ End(datagram) = sent[k].update_len => SentUpTo(k) = sent[k].update_len
        BY <1>2, <2>3, <3>3, <4>1, ReadChunk DEF box, datagram, info
      <4>3. CASE Finishes
        <5>1. SentUpTo(k)' = sent'[k].update_len
          BY <1>2, <1>3, <1>7, <2>1, <3>3, <4>2, <4>3
        <5> QED BY <3>3, <4>3, <5>1 DEF OnItsWay, HasInstalled
      <4>4. CASE Goes
        <5>1. info \in UpdateInfo
          BY <1>2, <2>1
        <5>2. /\ active_update_info'[s].key = k
              /\ active_update_info'[s].next_byte_offset = End(datagram)
              /\ active_update_info'[s] # None
          <6>1. [info EXCEPT !.next_byte_offset = End(datagram)]
                  \in [key : Nat, byte_len : Nat, next_byte_offset : Nat]
            <7>1. End(datagram) \in Nat
              BY <1>10, <2>1 DEF End
            <7> QED BY <5>1, <7>1 DEF UpdateInfo
          <6> QED BY <2>1, <3>3, <4>4, <5>1, <6>1, NoneIsNoInfo DEF UpdateInfo
        <5> QED BY <1>1, <1>3, <4>2, <5>2 DEF OnItsWay
      <4> QED BY <1>11, <4>2, <4>3, <4>4 DEF Reads
    <3> QED BY <3>1, <3>2, <3>3
  <2>4. active_update_info'[s] # None =>
          \A i \in DOMAIN box : active_update_info'[s].key <= box[i].key
    BY <1>5, <2>1, <2>2
  <2> QED BY <2>2, <2>3, <2>4 DEF Step
<1>12. ASSUME Begins
       PROVE  Step
  <2>1. datagram.kind = "prepare" /\ datagram.server = s
    BY <1>12 DEF IsPrepare, Begins
  <2>2. /\ active_update_info'[s].key = datagram.key
        /\ active_update_info'[s].byte_len = sent[datagram.key].update_len
        /\ active_update_info'[s].next_byte_offset = 0
        /\ datagram.key \in DOMAIN sent
    BY <1>9, <1>12, <2>1 DEF Begins
  <2>3. active_update_info'[s].next_byte_offset < active_update_info'[s].byte_len
    <3>1. \A n \in Nat \ {0} : 0 < n
      OBVIOUS
    <3> QED BY <1>8, <2>2, <3>1
  <2>4. active_update_info'[s] # None
    <3>1. sent[datagram.key].update_len \in Nat
      BY <1>8, <2>2
    <3>2. active_update_info'[s] \in [key : Nat, byte_len : Nat, next_byte_offset : Nat]
      BY <1>4, <1>9, <1>12, <2>1, <3>1 DEF Begins
    <3> QED BY <3>2, NoneIsNoInfo
  <2>5. ASSUME NEW k \in DOMAIN sent, OnItsWay(s, k)
        PROVE  OnItsWay(s, k)'
    <3>1. HasInstalled(s, k) => HasInstalled(s, k)'
      BY <1>1 DEF HasInstalled
    <3>2. ~IsChunk(datagram, k)
      BY <2>1 DEF IsChunk
    <3>3. CASE HasInstalled(s, k) /\ SentUpTo(k) = sent[k].update_len
      BY <1>2, <1>3, <3>1, <3>3 DEF OnItsWay
    <3>4. CASE /\ k = datagram.key
               /\ ~(HasInstalled(s, k) /\ SentUpTo(k) = sent[k].update_len)
      <4>1. IsPrepare(datagram, s, k)
        BY <1>12, <3>4 DEF Begins
      <4>2. Pending(box, s, k)
        BY <1>4, <4>1 DEF Pending
      <4>3. Leads(box, k, 0, SentUpTo(k))
        BY <2>5, <3>4, <4>2 DEF OnItsWay, box
      <4>4. Leads(Tail(box), k, 0, SentUpTo(k))
        BY <1>2, <3>2, <4>3, LeadsTailOther DEF datagram, box
      <4> QED BY <1>1, <1>3, <2>2, <2>4, <3>4, <4>4 DEF OnItsWay
    <3>5. CASE k # datagram.key
      <4>1. ~IsPrepare(datagram, s, k)
        BY <3>5 DEF IsPrepare
      <4>2. ASSUME info # None, info.key = k, Leads(box, k, info.next_byte_offset, SentUpTo(k))
            PROVE  FALSE
        <5>1. k \in Nat /\ k <= datagram.key /\ datagram.key <= update_key
          <6>1. k <= datagram.key /\ datagram.key <= update_key
            BY <1>4, <1>5, <4>2
          <6> QED BY <1>3, <6>1
        <5>2. k < datagram.key /\ k < update_key
          <6>1. \A m, n, u \in Nat : m <= n /\ n <= u /\ m # n => m < n /\ m < u
            OBVIOUS
          <6> QED BY <1>3, <1>4, <3>5, <5>1, <6>1
        <5>3. ASSUME NEW i \in DOMAIN box, IsChunk(box[i], k)
              PROVE  FALSE
          <6>1. datagram.key <= k
            BY <1>6, <5>3 DEF IsChunk
          <6> QED BY <1>4, <5>1, <5>2, <6>1
        <5>4. info.next_byte_offset = SentUpTo(k)
          BY <4>2, <5>3 DEF Leads
        <5>5. SentUpTo(k) = sent[k].update_len
          BY <5>2 DEF SentUpTo
        <5>6. info.next_byte_offset < sent[k].update_len
          BY <1>7, <4>2
        <5> QED BY <1>8, <5>4, <5>5, <5>6
      <4>3. inbox'[s] = Tail(inbox[s]) /\ inbox[s] \in Seq(Datagram) /\ inbox[s] # <<>>
        BY <1>1, <1>2 DEF box
      <4>4. /\ SentUpTo(k)' = SentUpTo(k) /\ UNCHANGED sent
            /\ active_update_info[s] # None /\ active_update_info[s].key = k =>
                 ~Leads(inbox[s], k, active_update_info[s].next_byte_offset, SentUpTo(k))
        BY <1>2, <1>3, <4>2 DEF info, box
      <4>5. ~IsChunk(Head(inbox[s]), k) /\ ~IsPrepare(Head(inbox[s]), s, k)
        BY <3>2, <4>1 DEF datagram
      <4> QED BY <2>5, <3>1, <4>3, <4>4, <4>5, ReadOther, Zenon
    <3> QED BY <3>3, <3>4, <3>5
  <2>6. \A i \in DOMAIN box : active_update_info'[s].key <= box[i].key
    BY <1>6, <2>2
  <2> QED BY <2>3, <2>5, <2>6 DEF Step
<1>13. ASSUME Skips
       PROVE  Step
  <2>1. active_update_info'[s] = active_update_info[s]
    BY <1>13 DEF info, Skips
  <2>2. active_update_info'[s] # None =>
          /\ active_update_info'[s].next_byte_offset < active_update_info'[s].byte_len
          /\ \A i \in DOMAIN box : active_update_info'[s].key <= box[i].key
    BY <1>5, <1>7, <1>13 DEF Skips
  <2>3. ASSUME NEW k \in DOMAIN sent, Newer(sent[k].version, current_version), OnItsWay(s, k)
        PROVE  OnItsWay(s, k)'
    <3>1. HasInstalled(s, k) => HasInstalled(s, k)'
      BY <1>1 DEF HasInstalled
    <3>2. CASE HasInstalled(s, k) /\ SentUpTo(k) = sent[k].update_len
      BY <1>2, <1>3, <3>1, <3>2 DEF OnItsWay
    <3>3. CASE ~(HasInstalled(s, k) /\ SentUpTo(k) = sent[k].update_len)
      <4>1. ~IsChunk(datagram, k)
        <5>1. IsChunk(datagram, k) => info # None /\ info.key = k
          BY <1>2, <2>3, <3>3, ReadChunk DEF box, datagram, info
        <5> QED BY <1>13, <5>1 DEF Skips
      <4>2. ~IsPrepare(datagram, s, k)
        <5>1. IsPrepare(datagram, s, k) =>
                /\ datagram.offer = sent[k]
                /\ IsPrepare(datagram, s, datagram.key)
          BY <1>9 DEF IsPrepare
        <5> QED BY <1>13, <2>3, <5>1 DEF Skips
      <4>3. inbox'[s] = Tail(inbox[s]) /\ inbox[s] \in Seq(Datagram) /\ inbox[s] # <<>>
        BY <1>1, <1>2 DEF box
      <4>4. SentUpTo(k)' = SentUpTo(k) /\ UNCHANGED sent
        BY <1>2, <1>3
      <4>5. ~IsChunk(Head(inbox[s]), k) /\ ~IsPrepare(Head(inbox[s]), s, k)
        BY <4>1, <4>2 DEF datagram
      <4> QED BY <2>1, <2>3, <3>1, <4>3, <4>4, <4>5, ReadOther, Zenon
    <3> QED BY <3>2, <3>3
  <2> QED BY <2>2, <2>3 DEF Step
<1>14. Step
  BY <1>1, <1>11, <1>12, <1>13
<1>15. UnfinishedInv'
  <2> SUFFICES ASSUME NEW t \in Servers, active_update_info'[t] # None
               PROVE  active_update_info'[t].next_byte_offset < active_update_info'[t].byte_len
    BY DEF UnfinishedInv
  <2>1. CASE t = s
    BY <1>14, <2>1 DEF Step
  <2>2. CASE t # s
    BY <1>1, <2>2 DEF HeardInv, UnfinishedInv
  <2> QED BY <2>1, <2>2
<1>16. OrderInv'
  <2> SUFFICES ASSUME NEW t \in Servers
               PROVE  /\ Ordered(inbox'[t])
                      /\ \A i \in DOMAIN inbox'[t] :
                           /\ inbox'[t][i].key <= update_key
                           /\ pc = "prepare" => ~IsChunk(inbox'[t][i], update_key)
                           /\ active_update_info'[t] # None =>
                                active_update_info'[t].key <= inbox'[t][i].key
    BY <1>2, <1>3 DEF OrderInv
  <2>1. CASE t = s
    <3>1. Ordered(inbox'[t])
      BY <1>1, <1>2, <1>5, <2>1, OrderedTail
    <3>2. \A i \in DOMAIN inbox'[t] : \E j \in DOMAIN box : inbox'[t][i] = box[j]
      BY <1>1, <1>6, <2>1
    <3> QED BY <1>5, <1>14, <2>1, <3>1, <3>2 DEF Step
  <2>2. CASE t # s
    BY <1>1, <2>2 DEF HeardInv, OrderInv
  <2> QED BY <2>1, <2>2
<1>17. StreamInv'
  <2> SUFFICES ASSUME NEW t \in Servers, NEW k \in DOMAIN sent, k \notin missed[t],
                      Newer(sent[k].version, current_version), Asked(t, k)
               PROVE  OnItsWay(t, k)'
    BY <1>2, <1>3 DEF StreamInv
  <2>1. OnItsWay(t, k)
    BY DEF HeardInv, StreamInv
  <2>2. CASE t = s
    BY <1>14, <2>1, <2>2 DEF Step
  <2>3. CASE t # s
    <3>1. /\ inbox'[t] = inbox[t] /\ active_update_info'[t] = active_update_info[t]
          /\ installed'[t] = installed[t] /\ UNCHANGED sent /\ SentUpTo(k)' = SentUpTo(k)
      BY <1>1, <1>2, <1>3, <2>3
    <3> QED BY <2>1, <3>1 DEF OnItsWay, HasInstalled
  <2> QED BY <2>2, <2>3
<1> QED BY <1>15, <1>16, <1>17 DEF HeardInv

LEMMA NextHeard ==
  IInv /\ HeardInv /\ [Next]_vars => HeardInv'
<1> SUFFICES ASSUME IInv, HeardInv, [Next]_vars
             PROVE  HeardInv'
  OBVIOUS
<1>1. CASE ClientStart \/ AllPrepared \/ ClientDone
  BY <1>1, ClientKeepsHeard
<1>2. CASE PrepareServer
  BY <1>2, PrepareKeepsHeard
<1>3. CASE UpdateServers
  BY <1>3, UpdateKeepsHeard
<1>4. ASSUME NEW s \in Servers, ServerReceive(s)
      PROVE  HeardInv'
  BY <1>4, ReceiveKeepsHeard
<1>5. CASE UNCHANGED vars
  <2>1. /\ UNCHANGED <<pc, sent, next_server, update_byte_offset>>
        /\ UNCHANGED <<inbox, missed, active_update_info, installed>>
    BY <1>5 DEF vars, clientVars, serverVars, busVars
  <2>2. OrderInv'
    BY <2>1 DEF HeardInv, OrderInv, update_key
  <2>3. UnfinishedInv'
    BY <2>1 DEF HeardInv, UnfinishedInv
  <2>4. StreamInv'
    <3>1. \A s, k : /\ SentUpTo(k)' = SentUpTo(k)
                    /\ Asked(s, k)' <=> Asked(s, k)
      BY <2>1 DEF SentUpTo, Asked, update_key
    <3>2. ASSUME NEW s, NEW k, OnItsWay(s, k)
          PROVE  OnItsWay(s, k)'
      <4>1. /\ inbox' = inbox /\ active_update_info' = active_update_info /\ sent' = sent
            /\ SentUpTo(k)' = SentUpTo(k)
            /\ HasInstalled(s, k)' <=> HasInstalled(s, k)
        BY <2>1, <3>1 DEF HasInstalled
      <4> QED BY <3>2, <4>1 DEF OnItsWay
    <3> QED BY <2>1, <3>1, <3>2 DEF HeardInv, StreamInv
  <2> QED BY <2>2, <2>3, <2>4 DEF HeardInv
<1> QED BY <1>1, <1>2, <1>3, <1>4, <1>5 DEF Next

(* What server::task has not read yet of an update it heard whole leads    *)
(* from where it is to where update_servers is.                            *)
THEOREM HeardInvariance ==
  Spec => []HeardInv
<1>1. Init => HeardInv
  <2> SUFFICES ASSUME Init
               PROVE  HeardInv
    OBVIOUS
  <2>1. /\ DOMAIN sent = {}
        /\ \A s \in Servers : DOMAIN inbox[s] = {} /\ active_update_info[s] = None
    BY DEF Init
  <2>2. OrderInv
    BY <2>1 DEF OrderInv, Ordered
  <2>3. StreamInv
    BY <2>1 DEF StreamInv
  <2>4. UnfinishedInv
    BY <2>1 DEF UnfinishedInv
  <2> QED BY <2>2, <2>3, <2>4 DEF HeardInv
<1> QED BY <1>1, InitInv, NextInv, NextHeard, PTL DEF Spec

(* A server that has read everything it heard, and missed nothing of an    *)
(* update to a newer version that the client has finished, has installed   *)
(* it (server::task): no datagram of another update, older or newer, whole *)
(* or in part, makes it lose its place.                                    *)
THEOREM HeardUpdatesAreInstalled ==
  Spec => []ReadIsInstalled
<1>1. IInv /\ HeardInv => ReadIsInstalled
  <2> SUFFICES ASSUME IInv, HeardInv, NEW s \in Servers, NEW k \in DOMAIN sent,
                      k < update_key \/ pc = "idle", inbox[s] = <<>>, k \notin missed[s],
                      Newer(sent[k].version, current_version), ~HasInstalled(s, k)
               PROVE  FALSE
    BY DEF ReadIsInstalled
  <2>1. OnItsWay(s, k)
    BY DEF HeardInv, StreamInv, Asked
  <2>2. SentUpTo(k) = sent[k].update_len
    BY DEF SentUpTo
  <2>3. ~Pending(inbox[s], s, k)
    BY DEF Pending
  <2>4. /\ active_update_info[s] # None /\ active_update_info[s].key = k
        /\ Leads(inbox[s], k, active_update_info[s].next_byte_offset, SentUpTo(k))
    BY <2>1, <2>3 DEF OnItsWay
  <2>5. active_update_info[s].next_byte_offset = sent[k].update_len
    <3>1. DOMAIN inbox[s] = {}
      OBVIOUS
    <3> QED BY <2>2, <2>4, <3>1 DEF Leads
  <2>6. active_update_info[s].next_byte_offset < sent[k].update_len
    BY <2>4 DEF IInv, ActiveInv, HeardInv, UnfinishedInv
  <2>7. sent[k].update_len \in Nat
    <3>1. sent \in Seq(Offers)
      BY DEF IInv, TypeOK
    <3> QED BY <3>1, OffersAssumption DEF Offer
  <2> QED BY <2>5, <2>6, <2>7
<1> QED BY <1>1, UpdateInvariance, HeardInvariance, PTL

==============================================================================
