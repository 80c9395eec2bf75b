-------------------------- MODULE FileServerProofs --------------------------
(***************************************************************************)
(* Proof that a descriptor leads to the file it was opened with, for any   *)
(* number of clients, of descriptors and of entries in opentab.            *)
(***************************************************************************)
EXTENDS FileServer, FiniteSetTheorems, WellFoundedInduction, TLAPS

(* What the proof takes from the sizes in the code: there are finitely many *)
(* processes, and 2^32 is a multiple of MAXOPEN.                            *)
Sizes ==
  /\ IsFiniteSet(Clients) /\ None \notin Clients
  /\ MAXOPEN \in Nat \ {0} /\ MAXFD \in Nat
  /\ \E k \in Nat \ {0} : IDS = MAXOPEN * k

Ids == 0 .. IDS - 1
AnyName == Names \cup {NoName}
Reqs == [op : {"none", "open", "use", "flush", "sync"}, name : AnyName,
         slot : Slots \cup {None}, id : Ids \cup {None}]

OpenFiles == [id : Ids, file : AnyName, alloc : BOOLEAN]
ClientStates == [step : {"idle", "send", "sent", "recv", "gone"}, req : Reqs]
ServerStates == [step : {"recv", "serve", "reply", "panicked"}, from : Clients \cup {None},
                 req : Reqs, res : -1 .. 0, page : Entries \cup {None}]

TypeOK ==
  fs \in [opentab : [Entries -> OpenFiles],
          held : [Clients -> [Slots -> Entries \cup {None}]],
          wants : [Clients -> [Slots -> AnyName]],
          client : [Clients -> ClientStates],
          server : ServerStates,
          opens : Nat]

(* An entry keeps its place: o_fileid % MAXOPEN is its index.               *)
IdsInPlace == \A i \in Entries : fs.opentab[i].id % MAXOPEN = i

(* The descriptors h of a process, opened with the names w: a mapped page   *)
(* belongs to an entry of the server with the right file.                   *)
HeldOk(h, w, opentab) ==
  \A j \in Slots : h[j] # None => opentab[h[j]].alloc /\ opentab[h[j]].file = w[j]

HeldRight == \A c \in Clients : HeldOk(fs.held[c], fs.wants[c], fs.opentab)

(* A request on a descriptor keeps it mapped, so its entry keeps its id.    *)
ReqOk(req, h, opentab) ==
  /\ req.op = "open" => req.slot \in Slots /\ req.name \in Names
  /\ req.op \in {"use", "flush"} =>
       req.slot \in Slots /\ h[req.slot] # None /\ req.id = opentab[h[req.slot]].id

ReqsRight ==
  \A c \in Clients :
    fs.client[c].step \in {"send", "sent", "recv"} =>
      ReqOk(fs.client[c].req, fs.held[c], fs.opentab)

(* The request being served is the one its client waits for; the page to be *)
(* mapped is that of the file it asked for.                                 *)
ServerRight ==
  fs.server.step \in {"serve", "reply"} =>
    /\ fs.server.from \in Clients
    /\ fs.client[fs.server.from].step \in {"sent", "recv", "gone"}
    /\ fs.client[fs.server.from].step # "gone" => fs.client[fs.server.from].req = fs.server.req
    /\ fs.server.step = "reply" /\ fs.server.page # None =>
         /\ fs.server.req.op = "open"
         /\ fs.opentab[fs.server.page].alloc
         /\ fs.opentab[fs.server.page].file = fs.server.req.name

IndInv == TypeOK /\ IdsInPlace /\ HeldRight /\ ReqsRight /\ ServerRight

-----------------------------------------------------------------------------
(* Remainders: adding m modulo a multiple of m leaves the remainder by m.   *)
LEMMA DivMod ==
  \A x \in Nat, m \in Nat \ {0} :
    x = m * (x \div m) + (x % m) /\ x % m \in 0 .. m - 1 /\ x \div m \in Nat
  OBVIOUS

LEMMA ModUnique ==
  ASSUME NEW m \in Nat \ {0}, NEW q \in Nat, NEW r \in 0 .. m - 1
  PROVE  (m * q + r) % m = r
  OBVIOUS

LEMMA ModWrap ==
  ASSUME NEW m \in Nat \ {0}, NEW k \in Nat \ {0}, NEW x \in 0 .. m * k - 1
  PROVE  ((x + m) % (m * k)) % m = x % m
<1>. DEFINE q == x \div m
            r == x % m
            L == m * k
<1>1. x \in Nat
  BY SMT
<1>2. x = m * q + r /\ r \in 0 .. m - 1 /\ q \in Nat
  BY <1>1, DivMod, Zenon
<1>3. L \in Nat /\ L >= m
  BY SMT
<1>. HIDE DEF q, r
<1>4. CASE x + m < L
  <2>1. (x + m) % L = x + m
    BY <1>3, <1>4
  <2>2. x + m = m * (q + 1) + r /\ q + 1 \in Nat
    BY <1>2
  <2>3. (m * (q + 1) + r) % m = r
    BY ONLY <1>2, <2>2, ModUnique, m \in Nat \ {0}
  <2>. QED
    BY <2>1, <2>2, <2>3 DEF r
<1>5. CASE x + m >= L
  <2>1. (x + m) % L = x + m - L
    <3>. HIDE DEF L
    <3>. QED
      BY <1>3, <1>5 DEF L
  <2>2. q + 1 >= k
    BY <1>2, <1>5
  <2>3. x + m - L = m * (q + 1 - k) + r /\ q + 1 - k \in Nat
    BY <1>2, <2>2
  <2>4. (m * (q + 1 - k) + r) % m = r
    BY ONLY <1>2, <2>3, ModUnique, m \in Nat \ {0}
  <2>. QED
    BY <2>1, <2>3, <2>4, Zenon DEF r
<1>. QED
  BY <1>3, <1>4, <1>5

(* openfile_alloc advances o_fileid without moving the entry.               *)
LEMMA IdKeepsPlace ==
  ASSUME Sizes, NEW x \in Ids
  PROVE  (x + MAXOPEN) % IDS \in Ids /\ ((x + MAXOPEN) % IDS) % MAXOPEN = x % MAXOPEN
<1>1. PICK k \in Nat \ {0} : IDS = MAXOPEN * k
  BY DEF Sizes
<1>2. MAXOPEN \in Nat \ {0} /\ IDS \in Nat \ {0}
  BY <1>1, SMT DEF Sizes
<1>3. (x + MAXOPEN) % IDS \in Ids
  BY <1>2 DEF Ids
<1>4. ((x + MAXOPEN) % IDS) % MAXOPEN = x % MAXOPEN
  BY <1>1, <1>2, ModWrap, Zenon DEF Ids
<1>. QED
  BY <1>3, <1>4

-----------------------------------------------------------------------------
(* References are counted; a page some process has mapped has at least two, *)
(* the server's and that one.                                               *)
LEMMA HeldIsReferenced ==
  ASSUME Sizes, TypeOK, HeldRight, NEW i \in Entries
  PROVE  /\ Refs(fs, i) \in Nat
         /\ \A c \in Clients, j \in Slots : fs.held[c][j] = i => Refs(fs, i) >= 2
<1>. DEFINE T == {x \in Clients \X Slots : fs.held[x[1]][x[2]] = i}
<1>1. IsFiniteSet(Slots)
  BY FS_Interval DEF Slots, Sizes
<1>2. IsFiniteSet(Clients \X Slots)
  BY <1>1, FS_Product DEF Sizes
<1>3. IsFiniteSet(T) /\ Cardinality(T) \in Nat
  BY <1>2, FS_Subset, FS_CardinalityType
<1>4. Refs(fs, i) \in Nat
  BY <1>3 DEF Refs
<1>5. ASSUME NEW c \in Clients, NEW j \in Slots, fs.held[c][j] = i PROVE Refs(fs, i) >= 2
  <2>1. <<c, j>> \in T
    BY <1>5
  <2>2. Cardinality(T) # 0
    BY <1>3, <2>1, FS_EmptySet, Zenon
  <2>3. fs.opentab[i].alloc
    BY <1>5 DEF HeldRight, HeldOk, Entries, None
  <2>. QED
    BY <1>3, <2>2, <2>3 DEF Refs
<1>. QED
  BY <1>4, <1>5

(* The entry behind an open descriptor.                                     *)
LEMMA HeldEntry ==
  ASSUME TypeOK, NEW c \in Clients, NEW j \in Slots, fs.held[c][j] # None
  PROVE  fs.held[c][j] \in Entries /\ fs.opentab[fs.held[c][j]].id \in Ids
<1>1. fs.held \in [Clients -> [Slots -> Entries \cup {None}]]
  BY DEF TypeOK
<1>2. fs.opentab \in [Entries -> OpenFiles]
  BY DEF TypeOK
<1>3. fs.held[c][j] \in Entries
  BY <1>1
<1>4. fs.opentab[fs.held[c][j]] \in OpenFiles
  BY <1>2, <1>3
<1>. QED
  BY <1>3, <1>4 DEF OpenFiles

-----------------------------------------------------------------------------
(* The invariant holds before the first request.                            *)
LEMMA IndInvInit == Sizes /\ Init => IndInv
<1>. SUFFICES ASSUME Sizes, Init PROVE IndInv
  OBVIOUS
<1>1. MAXOPEN \in Nat \ {0} /\ IDS \in Nat /\ MAXOPEN <= IDS
  <2>1. PICK k \in Nat \ {0} : IDS = MAXOPEN * k
    BY DEF Sizes
  <2>. QED
    BY <2>1, SMT DEF Sizes
<1>2. \A i \in Entries : i \in Ids /\ i % MAXOPEN = i
  BY <1>1 DEF Entries, Ids
<1>3. NoReq \in Reqs /\ NoReq.op = "none"
  BY DEF NoReq, Reqs, AnyName
<1>4. TypeOK
  BY <1>2, <1>3 DEF Init, TypeOK, Idle, Receiving, AnyName, OpenFiles, ClientStates, ServerStates
<1>5. IdsInPlace
  BY <1>2 DEF Init, IdsInPlace
<1>6. HeldRight /\ ReqsRight /\ ServerRight
  BY DEF Init, HeldRight, HeldOk, ReqsRight, ServerRight, Idle, Receiving
<1>. QED
  BY <1>4, <1>5, <1>6 DEF IndInv

(* A client makes a request: only its own record changes.                   *)
LEMMA AskKeeps ==
  ASSUME IndInv, NEW c \in Clients, NEW req \in Reqs, Ask(c, req),
         ReqOk(req, fs.held[c], fs.opentab)
  PROVE  IndInv'
<1>1. /\ fs'.opentab = fs.opentab /\ fs'.held = fs.held /\ fs'.wants = fs.wants
      /\ fs'.server = fs.server
      /\ fs'.client = [fs.client EXCEPT ![c] = [step |-> "send", req |-> req]]
      /\ fs.client[c].step = "idle"
  BY DEF Ask, IndInv, TypeOK
<1>2. TypeOK'
  <2>1. [step |-> "send", req |-> req] \in ClientStates
    BY DEF ClientStates
  <2>2. fs'.client \in [Clients -> ClientStates]
    BY <1>1, <2>1 DEF IndInv, TypeOK
  <2>3. fs'.opens \in Nat /\ fs' = [fs EXCEPT !.client = fs'.client, !.opens = fs'.opens]
    BY DEF Ask, IndInv, TypeOK
  <2>. QED
    BY <2>2, <2>3, Zenon DEF IndInv, TypeOK
<1>3. \A d \in Clients : fs'.client[d] = IF d = c THEN [step |-> "send", req |-> req] ELSE fs.client[d]
  BY <1>1 DEF IndInv, TypeOK
<1>4. IdsInPlace' /\ HeldRight'
  BY <1>1 DEF IndInv, IdsInPlace, HeldRight
<1>5. ReqsRight'
  BY <1>1, <1>3 DEF IndInv, ReqsRight
<1>6. ServerRight'
  BY <1>1, <1>3 DEF IndInv, ServerRight
<1>. QED
  BY <1>2, <1>4, <1>5, <1>6 DEF IndInv

(* Every set of numbers that is not empty has a least element, so the       *)
(* searches of fd_alloc and openfile_alloc find something.                  *)
LEMMA LeastExists ==
  ASSUME NEW T \in SUBSET Nat, T # {}
  PROVE  \E x \in T : \A y \in T : x <= y
<1>. DEFINE R == OpToRel(<, Nat)
<1>1. \A x, y \in Nat : <<x, y>> \in R <=> x < y
  BY DEF OpToRel
<1>2. IsWellFoundedOn(R, Nat)
  BY NatLessThanWellFounded, Zenon
<1>. HIDE DEF R
<1>3. PICK x \in T : \A y \in T : ~ (<<y, x>> \in R)
  BY <1>2, WFMin, Zenon
<1>4. \A y \in T : ~ (y < x)
  BY <1>1, <1>3, Zenon
<1>. QED
  BY <1>4

(* open, the requests on a descriptor, and sync.                            *)
LEMMA RequestsKeep ==
  ASSUME IndInv, NEW c \in Clients,
         \/ \E n \in Names : Open(c, n)
         \/ \E j \in Slots, op \in {"use", "flush"} : OnDescriptor(c, j, op)
         \/ Sync(c)
  PROVE  IndInv'
<1>1. ASSUME NEW n \in Names, Open(c, n) PROVE IndInv'
  <2>. DEFINE j == CHOOSE j \in FreeSlots(c) : \A k \in FreeSlots(c) : j <= k
              req == [op |-> "open", name |-> n, slot |-> j, id |-> None]
  <2>1. FreeSlots(c) \in SUBSET Nat /\ FreeSlots(c) # {} /\ FreeSlots(c) \subseteq Slots
    BY <1>1 DEF Open, FreeSlots, Slots
  <2>2. j \in Slots
    BY <2>1, LeastExists
  <2>. HIDE DEF j
  <2>3. req \in Reqs /\ ReqOk(req, fs.held[c], fs.opentab)
    BY <2>2 DEF Reqs, ReqOk, AnyName
  <2>4. Ask(c, req)
    BY <1>1 DEF Open, j
  <2>. QED
    BY <2>3, <2>4, AskKeeps
<1>2. ASSUME NEW j \in Slots, NEW op \in {"use", "flush"}, OnDescriptor(c, j, op) PROVE IndInv'
  <2>. DEFINE req == [op |-> op, name |-> NoName, slot |-> j, id |-> fs.opentab[fs.held[c][j]].id]
  <2>1. fs.held[c][j] \in Entries /\ fs.opentab[fs.held[c][j]].id \in Ids
    <3>1. fs.held[c][j] # None /\ TypeOK
      BY <1>2, Zenon DEF OnDescriptor, IndInv
    <3>. QED
      BY <3>1, HeldEntry
  <2>2. req \in Reqs /\ ReqOk(req, fs.held[c], fs.opentab)
    BY <1>2, <2>1, Zenon DEF OnDescriptor, Reqs, ReqOk, AnyName
  <2>3. Ask(c, req)
    BY <1>2, Zenon DEF OnDescriptor
  <2>. QED
    BY <2>2, <2>3, AskKeeps, Zenon
<1>3. ASSUME Sync(c) PROVE IndInv'
  <2>1. /\ [NoReq EXCEPT !.op = "sync"] \in Reqs
        /\ ReqOk([NoReq EXCEPT !.op = "sync"], fs.held[c], fs.opentab)
    BY DEF NoReq, Reqs, ReqOk, AnyName
  <2>. QED
    BY <1>3, <2>1, AskKeeps DEF Sync
<1>. QED
  BY <1>1, <1>2, <1>3

(* fork, exit, destruction and the two halves of fsipc.                     *)
LEMMA ClientKeeps ==
  ASSUME IndInv, NEW c \in Clients,
         \/ Exit(c) \/ Destroyed(c) \/ Send(c) \/ Recv(c)
         \/ \E d \in Clients : Inherit(c, d)
  PROVE  IndInv'
<1>. USE DEF ClientStates, ServerStates
<1>. DEFINE None1 == [j \in Slots |-> None]
            NoName1 == [j \in Slots |-> NoName]
<1>0. Idle \in ClientStates /\ NoReq \in Reqs /\ Idle.step = "idle"
  BY DEF Idle, NoReq, Reqs, AnyName
<1>a. None1 \in [Slots -> Entries \cup {None}] /\ NoName1 \in [Slots -> AnyName]
      /\ HeldOk(None1, NoName1, fs.opentab)
  BY DEF HeldOk, AnyName
<1>. USE DEF IndInv
<1>1. ASSUME Exit(c) PROVE IndInv'
  <2>1. /\ fs'.opentab = fs.opentab /\ fs'.server = fs.server /\ fs'.client = fs.client
        /\ fs'.held = [fs.held EXCEPT ![c] = None1] /\ fs'.wants = [fs.wants EXCEPT ![c] = NoName1]
        /\ fs.client[c].step = "idle"
        /\ fs' = [fs EXCEPT !.held = fs'.held, !.wants = fs'.wants]
    BY <1>1 DEF Exit, TypeOK
  <2>2. fs'.held \in [Clients -> [Slots -> Entries \cup {None}]] /\ fs'.wants \in [Clients -> [Slots -> AnyName]]
    BY <1>a, <2>1 DEF TypeOK
  <2>3. TypeOK'
    BY <2>1, <2>2, Zenon DEF TypeOK
  <2>4. \A d \in Clients : d # c => fs'.held[d] = fs.held[d] /\ fs'.wants[d] = fs.wants[d]
    BY <2>1 DEF TypeOK
  <2>5. fs'.held[c] = None1 /\ fs'.wants[c] = NoName1
    BY <2>1 DEF TypeOK
  <2>. HIDE DEF None1, NoName1
  <2>6. HeldRight'
    BY <1>a, <2>1, <2>4, <2>5 DEF HeldRight
  <2>7. ReqsRight'
    BY <2>1, <2>4 DEF ReqsRight
  <2>. QED
    <3>1. IdsInPlace'
      BY <2>1 DEF IdsInPlace
    <3>2. ServerRight'
      BY <2>1, Zenon DEF ServerRight
    <3>. QED
      BY <2>3, <2>6, <2>7, <3>1, <3>2
<1>2. ASSUME Destroyed(c) PROVE IndInv'
  <2>1. /\ fs'.opentab = fs.opentab /\ fs'.server = fs.server
        /\ fs'.client = [fs.client EXCEPT ![c] = [Idle EXCEPT !.step = "gone"]]
        /\ fs'.held = [fs.held EXCEPT ![c] = None1] /\ fs'.wants = [fs.wants EXCEPT ![c] = NoName1]
        /\ fs' = [fs EXCEPT !.client = fs'.client, !.held = fs'.held, !.wants = fs'.wants]
    BY <1>2 DEF Destroyed, TypeOK
  <2>a. [Idle EXCEPT !.step = "gone"] \in ClientStates /\ [Idle EXCEPT !.step = "gone"].step = "gone"
    BY <1>0
  <2>2. fs'.held \in [Clients -> [Slots -> Entries \cup {None}]] /\ fs'.wants \in [Clients -> [Slots -> AnyName]]
        /\ fs'.client \in [Clients -> ClientStates]
    BY <1>a, <2>1, <2>a DEF TypeOK
  <2>3. TypeOK'
    BY <2>1, <2>2, Zenon DEF TypeOK
  <2>4. \A d \in Clients : d # c => /\ fs'.held[d] = fs.held[d] /\ fs'.wants[d] = fs.wants[d]
                                    /\ fs'.client[d] = fs.client[d]
    BY <2>1 DEF TypeOK
  <2>5. fs'.held[c] = None1 /\ fs'.wants[c] = NoName1 /\ fs'.client[c].step = "gone"
    BY <2>1, <2>a DEF TypeOK
  <2>. HIDE DEF None1, NoName1
  <2>6. HeldRight'
    BY <1>a, <2>1, <2>4, <2>5 DEF HeldRight
  <2>7. ReqsRight'
    BY <2>1, <2>4, <2>5 DEF ReqsRight
  <2>8. ServerRight'
    BY <2>1, <2>4, <2>5 DEF ServerRight
  <2>. QED
    BY <2>1, <2>3, <2>6, <2>7, <2>8 DEF IdsInPlace
<1>3. ASSUME Send(c) PROVE IndInv'
  <2>. DEFINE srv == [Receiving EXCEPT !.step = "serve", !.from = c, !.req = fs.client[c].req]
  <2>1. /\ fs'.opentab = fs.opentab /\ fs'.held = fs.held /\ fs'.wants = fs.wants
        /\ fs'.client = [fs.client EXCEPT ![c] = [fs.client[c] EXCEPT !.step = "sent"]]
        /\ fs'.server = srv /\ fs.client[c].step = "send"
        /\ fs' = [fs EXCEPT !.client = fs'.client, !.server = fs'.server]
    <3>1. /\ fs.client[c].step = "send"
          /\ fs' = [fs EXCEPT !.client[c].step = "sent", !.server = srv]
      BY <1>3, Zenon DEF Send
    <3>. HIDE DEF srv
    <3>. QED
      BY <3>1 DEF TypeOK
  <2>2. [fs.client[c] EXCEPT !.step = "sent"] \in ClientStates
    <3>1. fs.client \in [Clients -> ClientStates]
      BY DEF TypeOK
    <3>2. ASSUME NEW r \in ClientStates PROVE [r EXCEPT !.step = "sent"] \in ClientStates
      BY <3>2
    <3>. QED
      BY ONLY <3>1, <3>2, c \in Clients, Zenon
  <2>3. fs'.client \in [Clients -> ClientStates]
    BY <2>1, <2>2 DEF TypeOK
  <2>4. srv.step = "serve" /\ srv.from = c /\ srv.req = fs.client[c].req /\ srv.page = None
    BY DEF Receiving
  <2>a. srv \in ServerStates
    <3>1. Receiving \in ServerStates
      BY <1>0 DEF Receiving
    <3>2. fs.client[c].req \in Reqs
      BY DEF TypeOK
    <3>. QED
      BY <3>1, <3>2, Zenon
  <2>. HIDE DEF srv
  <2>5. TypeOK'
    BY <2>1, <2>3, <2>a, Zenon DEF TypeOK
  <2>6. \A d \in Clients : /\ fs'.client[d].req = fs.client[d].req
                           /\ d # c => fs'.client[d] = fs.client[d]
    BY <2>1 DEF TypeOK
  <2>7. fs'.client[c].step = "sent"
    BY <2>1 DEF TypeOK
  <2>8. ReqsRight'
    BY <2>1, <2>6, <2>7 DEF ReqsRight
  <2>9. ServerRight'
    BY <2>1, <2>4, <2>6, <2>7, Zenon DEF ServerRight
  <2>. QED
    BY <2>1, <2>5, <2>8, <2>9 DEF IdsInPlace, HeldRight
<1>4. ASSUME Recv(c) PROVE IndInv'
  <2>1. /\ fs'.opentab = fs.opentab /\ fs'.held = fs.held /\ fs'.wants = fs.wants
        /\ fs'.client = [fs.client EXCEPT ![c] = [fs.client[c] EXCEPT !.step = "recv"]]
        /\ fs'.server = fs.server /\ fs.client[c].step = "sent"
        /\ fs' = [fs EXCEPT !.client = fs'.client]
    BY <1>4 DEF Recv, TypeOK
  <2>2. [fs.client[c] EXCEPT !.step = "recv"] \in ClientStates
    BY DEF TypeOK
  <2>3. fs'.client \in [Clients -> ClientStates]
    BY <2>1, <2>2 DEF TypeOK
  <2>5. TypeOK'
    BY <2>1, <2>3, Zenon DEF TypeOK
  <2>6. \A d \in Clients : /\ fs'.client[d].req = fs.client[d].req
                           /\ d # c => fs'.client[d] = fs.client[d]
    BY <2>1 DEF TypeOK
  <2>7. fs'.client[c].step = "recv"
    BY <2>1 DEF TypeOK
  <2>8. ReqsRight'
    BY <2>1, <2>6, <2>7 DEF ReqsRight
  <2>9. ServerRight'
    BY <2>1, <2>6, <2>7 DEF ServerRight
  <2>. QED
    <3>1. IdsInPlace'
      BY <2>1 DEF IdsInPlace
    <3>2. HeldRight'
      BY <2>1 DEF HeldRight
    <3>. QED
      BY <2>5, <2>8, <2>9, <3>1, <3>2
<1>5. ASSUME NEW d \in Clients, Inherit(c, d) PROVE IndInv'
  <2>1. /\ fs'.opentab = fs.opentab /\ fs'.server = fs.server /\ fs'.client = fs.client
        /\ fs'.held = [fs.held EXCEPT ![d] = fs.held[c]] /\ fs'.wants = [fs.wants EXCEPT ![d] = fs.wants[c]]
        /\ fs.client[d].step = "idle"
        /\ fs' = [fs EXCEPT !.held = fs'.held, !.wants = fs'.wants]
    BY <1>5, Zenon DEF Inherit, TypeOK
  <2>a. fs'.held \in [Clients -> [Slots -> Entries \cup {None}]] /\ fs'.wants \in [Clients -> [Slots -> AnyName]]
    BY <2>1 DEF TypeOK
  <2>2. TypeOK'
    BY <2>1, <2>a, Zenon DEF TypeOK
  <2>3. \A e \in Clients : e # d => fs'.held[e] = fs.held[e] /\ fs'.wants[e] = fs.wants[e]
    BY <2>1 DEF TypeOK
  <2>4. fs'.held[d] = fs.held[c] /\ fs'.wants[d] = fs.wants[c]
    BY <2>1 DEF TypeOK
  <2>5. HeldRight'
    BY <2>1, <2>3, <2>4 DEF HeldRight
  <2>6. ReqsRight'
    BY <2>1, <2>3 DEF ReqsRight
  <2>. QED
    <3>1. IdsInPlace'
      BY <2>1 DEF IdsInPlace
    <3>2. ServerRight'
      BY <2>1, Zenon DEF ServerRight
    <3>. QED
      BY <2>2, <2>5, <2>6, <3>1, <3>2
<1>. QED
  BY <1>1, <1>2, <1>3, <1>4, <1>5

(* openfile_alloc finds an entry whose page no process has mapped.          *)
LEMMA AllocFindsUnused ==
  ASSUME Sizes, IndInv, openfile_alloc(fs) # None
  PROVE  /\ openfile_alloc(fs) \in Entries
         /\ \A c \in Clients, j \in Slots : fs.held[c][j] # openfile_alloc(fs)
<1>. DEFINE T == {i \in Entries : CanAlloc(fs, i)}
            Choice(i) == CanAlloc(fs, i) /\ \A k \in 0 .. i - 1 : ~ CanAlloc(fs, k)
<1>1. T \in SUBSET Nat /\ T # {}
  BY DEF openfile_alloc, Entries
<1>2. PICK x \in T : \A y \in T : x <= y
  BY <1>1, LeastExists, Zenon
<1>3. \E i \in Entries : Choice(i)
  <2>1. x \in Entries /\ CanAlloc(fs, x) /\ x \in Nat
    BY <1>2 DEF Entries
  <2>2. ASSUME NEW k \in 0 .. x - 1, CanAlloc(fs, k) PROVE FALSE
    <3>1. k \in Entries /\ k < x
      BY <2>1, <2>2 DEF Entries, Sizes
    <3>. QED
      BY <1>2, <2>1, <2>2, <3>1 DEF Entries
  <2>. QED
    BY <2>1, <2>2
<1>4. openfile_alloc(fs) = CHOOSE i \in Entries : Choice(i)
  BY DEF openfile_alloc
<1>5. openfile_alloc(fs) \in Entries /\ Choice(openfile_alloc(fs))
  BY <1>3, <1>4
<1>6. ASSUME NEW c \in Clients, NEW j \in Slots, fs.held[c][j] = openfile_alloc(fs) PROVE FALSE
  <2>1. Refs(fs, openfile_alloc(fs)) >= 2 /\ Refs(fs, openfile_alloc(fs)) \in Nat
    BY <1>5, <1>6, HeldIsReferenced DEF IndInv
  <2>. QED
    BY <1>5, <2>1 DEF CanAlloc
<1>. QED
  BY <1>5, <1>6

(* An answer, after the entry i, which nobody has open, became e.           *)
Answered(res, i, e, page) ==
  /\ fs.server.step = "serve" /\ res \in -1 .. 0
  /\ i \in Entries /\ \A c \in Clients, j \in Slots : fs.held[c][j] # i
  /\ e \in OpenFiles /\ e.id % MAXOPEN = i
  /\ page \in {None, i}
  /\ page = i => fs.server.req.op = "open" /\ e.alloc /\ e.file = fs.server.req.name
  /\ fs'.opentab = [fs.opentab EXCEPT ![i] = e]
  /\ fs'.server = [fs.server EXCEPT !.step = "reply", !.res = res, !.page = page]
  /\ fs' = [fs EXCEPT !.opentab = fs'.opentab, !.server = fs'.server]

LEMMA AnswerKeeps ==
  ASSUME IndInv, NEW res, NEW i, NEW e, NEW page, Answered(res, i, e, page)
  PROVE  IndInv'
<1>0. TypeOK /\ fs' = [fs EXCEPT !.opentab = fs'.opentab, !.server = fs'.server]
  BY DEF IndInv, Answered
<1>1. fs'.held = fs.held /\ fs'.wants = fs.wants /\ fs'.client = fs.client
  BY <1>0, Zenon DEF TypeOK
<1>. USE DEF IndInv, Answered
<1>2. /\ fs'.opentab[i] = e
      /\ \A k \in Entries : k # i => fs'.opentab[k] = fs.opentab[k]
  BY DEF TypeOK
<1>3. /\ fs'.server.step = "reply" /\ fs'.server.page = page
      /\ fs'.server.from = fs.server.from /\ fs'.server.req = fs.server.req
  BY DEF TypeOK
<1>4. TypeOK'
  <2>1. fs'.opentab \in [Entries -> OpenFiles]
    BY DEF TypeOK
  <2>2. fs'.server \in ServerStates
    <3>1. fs.server \in ServerStates /\ page \in Entries \cup {None}
      BY DEF TypeOK
    <3>2. [fs.server EXCEPT !.step = "reply", !.res = res, !.page = page] \in ServerStates
      BY <3>1, Zenon DEF ServerStates
    <3>. QED
      BY <3>2
  <2>3. \A o \in [Entries -> OpenFiles], v \in ServerStates :
           TypeOK => [fs EXCEPT !.opentab = o, !.server = v]
                       \in [opentab : [Entries -> OpenFiles],
                            held : [Clients -> [Slots -> Entries \cup {None}]],
                            wants : [Clients -> [Slots -> AnyName]],
                            client : [Clients -> ClientStates],
                            server : ServerStates,
                            opens : Nat]
    BY ONLY Zenon DEF TypeOK
  <2>. QED
    BY <2>1, <2>2, <2>3, Zenon DEF TypeOK
<1>5. IdsInPlace'
  BY <1>2 DEF IdsInPlace
<1>6. HeldRight'
  <2>1. ASSUME NEW c \in Clients PROVE HeldOk(fs.held[c], fs.wants[c], fs'.opentab)
    BY <1>2 DEF HeldRight, HeldOk, TypeOK
  <2>. QED
    BY <1>1, <2>1 DEF HeldRight
<1>7. ReqsRight'
  <2>1. ASSUME NEW c \in Clients, NEW req, ReqOk(req, fs.held[c], fs.opentab)
        PROVE  ReqOk(req, fs.held[c], fs'.opentab)
    BY <1>2, <2>1 DEF ReqOk, TypeOK
  <2>. QED
    BY <1>1, <2>1 DEF ReqsRight
<1>8. ServerRight'
  BY <1>1, <1>2, <1>3 DEF ServerRight, TypeOK
<1>. QED
  BY <1>4, <1>5, <1>6, <1>7, <1>8

(* An answer that leaves opentab alone.                                     *)
LEMMA PlainAnswerKeeps ==
  ASSUME IndInv, fs.server.step = "serve", NEW res \in -1 .. 0, fs' = Answer(fs, res, None)
  PROVE  IndInv'
<1>1. /\ fs'.opentab = fs.opentab /\ fs'.held = fs.held /\ fs'.wants = fs.wants
      /\ fs'.client = fs.client
      /\ fs'.server = [fs.server EXCEPT !.step = "reply", !.res = res, !.page = None]
      /\ fs' = [fs EXCEPT !.server = fs'.server]
  BY Zenon DEF Answer, IndInv, TypeOK
<1>2. fs.server \in ServerStates
  BY DEF IndInv, TypeOK
<1>3. /\ fs'.server.step = "reply" /\ fs'.server.page = None
      /\ fs'.server.from = fs.server.from /\ fs'.server.req = fs.server.req
      /\ fs'.server \in ServerStates
  BY ONLY <1>1, <1>2, res \in -1 .. 0, Zenon DEF ServerStates
<1>4. TypeOK'
  BY <1>1, <1>3 DEF IndInv, TypeOK
<1>5. IdsInPlace' /\ HeldRight' /\ ReqsRight'
  BY <1>1 DEF IndInv, IdsInPlace, HeldRight, ReqsRight
<1>6. ServerRight'
  BY <1>1, <1>3 DEF IndInv, ServerRight
<1>. QED
  BY <1>4, <1>5, <1>6 DEF IndInv

(* serve_open.                                                              *)
LEMMA ServeOpenKeeps ==
  ASSUME Sizes, IndInv, ServeOpen
  PROVE  IndInv'
<1>. DEFINE i == openfile_alloc(fs)
            id == (fs.opentab[i].id + MAXOPEN) % IDS
            taken == [fs EXCEPT !.opentab[i] = [@ EXCEPT !.id = id, !.alloc = TRUE]]
            opened == [taken EXCEPT !.opentab[i].file = fs.server.req.name]
<1>1. fs.server.step = "serve" /\ fs.server.req.op = "open"
  BY DEF ServeOpen
<1>2. CASE fs' = Answer(fs, -1, None)
  BY <1>1, <1>2, PlainAnswerKeeps
<1>3. CASE i # None /\ (fs' = Answer(taken, -1, None) \/ fs' = Answer(opened, 0, i))
  <2>1. i \in Entries /\ \A c \in Clients, j \in Slots : fs.held[c][j] # i
    BY <1>3, AllocFindsUnused
  <2>. HIDE DEF i
  <2>2. fs.opentab[i] \in OpenFiles /\ fs.opentab[i].id \in Ids /\ fs.opentab[i].id % MAXOPEN = i
    BY <2>1 DEF IndInv, TypeOK, IdsInPlace, OpenFiles
  <2>3. id \in Ids /\ id % MAXOPEN = i
    BY <2>2, IdKeepsPlace
  <2>. HIDE DEF id
  <2>. DEFINE e == [fs.opentab[i] EXCEPT !.id = id, !.alloc = TRUE]
              f == [fs.opentab[i] EXCEPT !.id = id, !.alloc = TRUE, !.file = fs.server.req.name]
  <2>4. fs.server.req.name \in AnyName
    BY DEF IndInv, TypeOK, ServerStates, Reqs
  <2>5. /\ e \in OpenFiles /\ e.id = id
        /\ f \in OpenFiles /\ f.id = id /\ f.alloc /\ f.file = fs.server.req.name
    BY <2>2, <2>3, <2>4, Zenon DEF OpenFiles
  <2>6. CASE fs' = Answer(taken, -1, None)
    <3>1. /\ fs'.opentab = [fs.opentab EXCEPT ![i] = e]
          /\ fs'.server = [fs.server EXCEPT !.step = "reply", !.res = -1, !.page = None]
          /\ fs' = [fs EXCEPT !.opentab = fs'.opentab, !.server = fs'.server]
      BY <2>1, <2>6, Zenon DEF Answer, IndInv, TypeOK
    <3>2. e.id % MAXOPEN = i /\ -1 \in -1 .. 0 /\ None # i /\ None \in {None, i}
      BY <2>1, <2>3, <2>5 DEF None, Entries
    <3>. HIDE DEF e, taken, opened
    <3>3. Answered(-1, i, e, None)
      BY <1>1, <2>1, <2>5, <3>1, <3>2 DEF Answered
    <3>. QED
      BY <3>3, AnswerKeeps
  <2>7. CASE fs' = Answer(opened, 0, i)
    <3>1. /\ fs'.opentab = [fs.opentab EXCEPT ![i] = f]
          /\ fs'.server = [fs.server EXCEPT !.step = "reply", !.res = 0, !.page = i]
          /\ fs' = [fs EXCEPT !.opentab = fs'.opentab, !.server = fs'.server]
      BY <2>1, <2>7, Zenon DEF Answer, IndInv, TypeOK
    <3>2. f.id % MAXOPEN = i /\ 0 \in -1 .. 0 /\ i \in {None, i}
      BY <2>3, <2>5
    <3>. HIDE DEF f, taken, opened
    <3>3. Answered(0, i, f, i)
      BY <1>1, <2>1, <2>5, <3>1, <3>2 DEF Answered
    <3>. QED
      BY <3>3, AnswerKeeps
  <2>. QED
    BY <1>3, <2>6, <2>7
<1>. QED
  BY <1>2, <1>3 DEF ServeOpen

(* The answer reaches the client: open has its descriptor, and close, whose *)
(* last request is the flush, gives its own up.                             *)
LEMMA ReplyKeeps ==
  ASSUME IndInv, Reply
  PROVE  IndInv'
<1>. DEFINE c == fs.server.from
            req == fs.client[c].req
            h == CASE fs.server.page # None -> [fs.held[c] EXCEPT ![req.slot] = fs.server.page]
                   [] req.op = "flush" -> [fs.held[c] EXCEPT ![req.slot] = None]
                   [] OTHER -> fs.held[c]
            w == CASE fs.server.page # None -> [fs.wants[c] EXCEPT ![req.slot] = req.name]
                   [] req.op = "flush" -> [fs.wants[c] EXCEPT ![req.slot] = NoName]
                   [] OTHER -> fs.wants[c]
<1>1. c \in Clients /\ fs.server.step = "reply" /\ fs.client[c].step = "recv"
  BY Zenon DEF Reply, IndInv, ServerRight
<1>2. /\ fs'.held = [fs.held EXCEPT ![c] = h] /\ fs'.wants = [fs.wants EXCEPT ![c] = w]
      /\ fs'.client = [fs.client EXCEPT ![c] = Idle] /\ fs'.server = Receiving
      /\ fs'.opentab = fs.opentab
      /\ fs' = [fs EXCEPT !.held = fs'.held, !.wants = fs'.wants, !.client = fs'.client,
                          !.server = fs'.server]
  <2>1. fs' = [fs EXCEPT !.server = Receiving, !.client[c] = Idle, !.held[c] = h, !.wants[c] = w]
    BY Zenon DEF Reply
  <2>. HIDE DEF h, w, c
  <2>. QED
    BY <1>1, <2>1, Zenon DEF IndInv, TypeOK
<1>3. /\ fs.held[c] \in [Slots -> Entries \cup {None}] /\ fs.wants[c] \in [Slots -> AnyName]
      /\ fs.server.page \in Entries \cup {None} /\ req.name \in AnyName
      /\ req = fs.server.req /\ ReqOk(req, fs.held[c], fs.opentab)
      /\ HeldOk(fs.held[c], fs.wants[c], fs.opentab)
  BY <1>1, Zenon DEF IndInv, TypeOK, ServerRight, ReqsRight, HeldRight, ServerStates, ClientStates, Reqs
<1>4. /\ fs.server.page # None =>
           /\ req.op = "open" /\ req.slot \in Slots
           /\ fs.opentab[fs.server.page].alloc
           /\ fs.opentab[fs.server.page].file = req.name
      /\ req.op = "flush" => req.slot \in Slots
  BY <1>1, <1>3, Zenon DEF IndInv, ServerRight, ReqOk
<1>5. /\ h \in [Slots -> Entries \cup {None}] /\ w \in [Slots -> AnyName]
      /\ HeldOk(h, w, fs.opentab)
  <2>1. CASE fs.server.page # None
    <3>1. h = [fs.held[c] EXCEPT ![req.slot] = fs.server.page]
          /\ w = [fs.wants[c] EXCEPT ![req.slot] = req.name]
      BY <1>4, <2>1, Zenon
    <3>. HIDE DEF h, w, req, c
    <3>. QED
      BY <1>3, <1>4, <2>1, <3>1, Zenon DEF HeldOk
  <2>2. CASE fs.server.page = None /\ req.op = "flush"
    <3>1. h = [fs.held[c] EXCEPT ![req.slot] = None]
          /\ w = [fs.wants[c] EXCEPT ![req.slot] = NoName]
      BY <2>2
    <3>. HIDE DEF h, w, req, c
    <3>. QED
      BY <1>3, <1>4, <2>2, <3>1, Zenon DEF HeldOk, AnyName
  <2>3. CASE fs.server.page = None /\ req.op # "flush"
    <3>1. h = fs.held[c] /\ w = fs.wants[c]
      BY <2>3
    <3>. QED
      BY <1>3, <3>1, Zenon
  <2>. QED
    BY <2>1, <2>2, <2>3, Zenon
<1>. HIDE DEF h, w, req, c
<1>6. Idle \in ClientStates /\ Receiving \in ServerStates /\ Idle.step = "idle" /\ Receiving.step = "recv"
  BY DEF Idle, Receiving, NoReq, Reqs, AnyName, ClientStates, ServerStates
<1>7. TypeOK'
  <2>1. /\ fs'.held \in [Clients -> [Slots -> Entries \cup {None}]]
        /\ fs'.wants \in [Clients -> [Slots -> AnyName]]
        /\ fs'.client \in [Clients -> ClientStates]
    BY <1>1, <1>2, <1>5, <1>6 DEF IndInv, TypeOK
  <2>. QED
    BY <1>2, <1>6, <2>1, Zenon DEF IndInv, TypeOK
<1>8. \A d \in Clients :
        /\ fs'.held[d] = IF d = c THEN h ELSE fs.held[d]
        /\ fs'.wants[d] = IF d = c THEN w ELSE fs.wants[d]
        /\ fs'.client[d] = IF d = c THEN Idle ELSE fs.client[d]
  BY <1>2 DEF IndInv, TypeOK
<1>9. IdsInPlace' /\ HeldRight'
  BY <1>2, <1>5, <1>8 DEF IndInv, IdsInPlace, HeldRight
<1>10. ReqsRight'
  BY <1>2, <1>6, <1>8 DEF IndInv, ReqsRight
<1>11. ServerRight'
  BY <1>2, <1>6 DEF ServerRight
<1>. QED
  BY <1>7, <1>9, <1>10, <1>11 DEF IndInv

(* The client is gone, and the server panics.                               *)
LEMMA ReplyToNobodyKeeps ==
  ASSUME IndInv, ReplyToNobody
  PROVE  IndInv'
<1>1. /\ fs'.opentab = fs.opentab /\ fs'.held = fs.held /\ fs'.wants = fs.wants
      /\ fs'.client = fs.client
      /\ fs'.server = [fs.server EXCEPT !.step = "panicked"]
      /\ fs' = [fs EXCEPT !.server = fs'.server]
  BY DEF ReplyToNobody, IndInv, TypeOK
<1>2. fs.server \in ServerStates
  BY DEF IndInv, TypeOK
<1>3. fs'.server.step = "panicked" /\ fs'.server \in ServerStates
  BY ONLY <1>1, <1>2 DEF ServerStates
<1>4. TypeOK'
  BY <1>1, <1>3, Zenon DEF IndInv, TypeOK
<1>5. IdsInPlace' /\ HeldRight' /\ ReqsRight'
  BY <1>1 DEF IndInv, IdsInPlace, HeldRight, ReqsRight
<1>6. ServerRight'
  BY <1>3 DEF ServerRight
<1>. QED
  BY <1>4, <1>5, <1>6 DEF IndInv

-----------------------------------------------------------------------------
LEMMA IndInvStep == Sizes /\ IndInv /\ [Next]_fs => IndInv'
<1>. SUFFICES ASSUME Sizes, IndInv, [Next]_fs PROVE IndInv'
  OBVIOUS
<1>1. ASSUME NEW c \in Clients,
             \/ \E n \in Names : Open(c, n)
             \/ \E j \in Slots, op \in {"use", "flush"} : OnDescriptor(c, j, op)
             \/ Sync(c)
      PROVE  IndInv'
  BY <1>1, RequestsKeep
<1>2. ASSUME NEW c \in Clients,
             \/ Exit(c) \/ Destroyed(c) \/ Send(c) \/ Recv(c)
             \/ \E d \in Clients : Inherit(c, d)
      PROVE  IndInv'
  BY <1>2, ClientKeeps
<1>3. CASE ServeOpen
  BY <1>3, ServeOpenKeeps
<1>4. CASE ServeRequest
  <2>1. fs.server.step = "serve" /\ \E res \in -1 .. 0 : fs' = Answer(fs, res, None)
    BY <1>4 DEF ServeRequest
  <2>. QED
    BY <2>1, PlainAnswerKeeps
<1>5. CASE Reply
  BY <1>5, ReplyKeeps
<1>6. CASE ReplyToNobody
  BY <1>6, ReplyToNobodyKeeps
<1>7. CASE UNCHANGED fs
  BY <1>7, Zenon DEF IndInv, TypeOK, IdsInPlace, HeldRight, ReqsRight, ServerRight
<1>. QED
  BY <1>1, <1>2, <1>3, <1>4, <1>5, <1>6, <1>7 DEF Next

LEMMA IndInvSuffices == Sizes /\ IndInv => DescriptorsLeadToTheirFile
<1>. SUFFICES ASSUME Sizes, IndInv PROVE DescriptorsLeadToTheirFile
  OBVIOUS
<1>1. ASSUME NEW c \in Clients, NEW j \in Slots, fs.held[c][j] # None
      PROVE  fs.opentab[fs.held[c][j]].file = fs.wants[c][j]
  BY <1>1 DEF IndInv, HeldRight, HeldOk
<1>2. ASSUME fs.server.step = "serve", fs.server.req.op \in {"use", "flush"},
             fs.client[fs.server.from].step # "gone"
      PROVE  ~ LookupFails(fs, fs.server.req.id)
  <2>. DEFINE c == fs.server.from
              req == fs.server.req
              i == fs.held[c][req.slot]
  <2>1. c \in Clients /\ fs.client[c].req = req /\ fs.client[c].step \in {"send", "sent", "recv"}
    BY <1>2 DEF IndInv, ServerRight
  <2>2. req.slot \in Slots /\ i # None /\ req.id = fs.opentab[i].id
    <3>1. ReqOk(req, fs.held[c], fs.opentab)
      BY <2>1 DEF IndInv, ReqsRight
    <3>. QED
      BY <1>2, <3>1, Zenon DEF ReqOk
  <2>3. i \in Entries
    BY <2>1, <2>2, HeldEntry, Zenon DEF IndInv
  <2>4. req.id % MAXOPEN = i
    BY <2>2, <2>3, Zenon DEF IndInv, IdsInPlace
  <2>5. Refs(fs, i) \in Nat /\ Refs(fs, i) >= 2
    BY <2>1, <2>2, <2>3, HeldIsReferenced, Zenon DEF IndInv
  <2>. HIDE DEF i, c
  <2>6. ~ (Refs(fs, i) <= 1)
    BY ONLY <2>5
  <2>7. ~ LookupFails(fs, req.id)
    BY ONLY <2>2, <2>4, <2>6, Zenon DEF LookupFails
  <2>. QED
    BY <2>7
<1>. QED
  BY <1>1, <1>2 DEF DescriptorsLeadToTheirFile

(* For any clients, any table and any number of descriptors, with file ids  *)
(* that wrap around at a multiple of MAXOPEN: openfile_alloc never gives an *)
(* entry away that a process still has open, however ids wrap, requests     *)
(* interleave, descriptors are inherited and processes die, so every        *)
(* descriptor leads to the file it was opened with and openfile_lookup      *)
(* accepts every request on it.                                             *)
THEOREM DescriptorsRight ==
  ASSUME Sizes
  PROVE  Spec => []DescriptorsLeadToTheirFile
<1>1. Init => IndInv
  BY IndInvInit
<1>2. IndInv /\ [Next]_fs => IndInv'
  BY IndInvStep
<1>3. IndInv => DescriptorsLeadToTheirFile
  BY IndInvSuffices
<1>. QED
  BY <1>1, <1>2, <1>3, PTL DEF Spec
=============================================================================
