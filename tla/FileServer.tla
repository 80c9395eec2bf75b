----------------------------- MODULE FileServer -----------------------------
(***************************************************************************)
(* The open files of the file server (fs/serv.c) and the clients that talk *)
(* to it over IPC (lib/file.c, lib/ipc.c).  An open file is an entry of    *)
(* opentab with an Fd page of its own; a client that opens the file gets   *)
(* the page mapped, and the server tells from the page's reference count   *)
(* whether the entry is still in use.  What the requests do to the disk is *)
(* in FileSys; here a request matters for the entry it reaches.            *)
(***************************************************************************)
EXTENDS Integers, FiniteSets

CONSTANTS Clients, Names,
          MAXOPEN,    \* entries of opentab
          MAXFD,      \* descriptors of a client
          IDS,        \* values of o_fileid, 2^32
          MaxOpens    \* bound: opens in a behaviour

VARIABLE fs
\* opentab : for each entry its o_fileid and o_file, and whether the
\*           server has its page mapped (alloc)
\* held    : the entry whose page is at each descriptor of a client, or none
\* wants   : the name the client opened each of its descriptors with
\* client  : step of fsipc a client is in, with its request
\* server  : what the server does, with the request it serves and its result
\* opens   : requests to open so far

Entries == 0 .. MAXOPEN - 1
Slots == 0 .. MAXFD - 1
None == -1
NoName == "none"
NoReq == [op |-> "none", name |-> NoName, slot |-> None, id |-> None]
Idle == [step |-> "idle", req |-> NoReq]
Receiving == [step |-> "recv", from |-> None, req |-> NoReq, res |-> 0, page |-> None]

(* sys_region_refs of the page of entry i.                                  *)
Refs(s, i) ==
  (IF s.opentab[i].alloc THEN 1 ELSE 0)
    + Cardinality({x \in Clients \X Slots : s.held[x[1]][x[2]] = i})

Init ==
  fs = [opentab |-> [i \in Entries |-> [id |-> i, file |-> NoName, alloc |-> FALSE]],
        held |-> [c \in Clients |-> [j \in Slots |-> None]],
        wants |-> [c \in Clients |-> [j \in Slots |-> NoName]],
        client |-> [c \in Clients |-> Idle],
        server |-> Receiving,
        opens |-> 0]

-----------------------------------------------------------------------------
(* Clients.                                                                 *)

FreeSlots(c) == {j \in Slots : fs.held[c][j] = None}
Ask(c, req) ==
  /\ fs.client[c].step = "idle"
  /\ fs' = [fs EXCEPT !.client[c] = [step |-> "send", req |-> req],
                      !.opens = IF req.op = "open" THEN @ + 1 ELSE @]

(* open: the smallest free descriptor, the request, the page in the reply.  *)
Open(c, n) ==
  /\ fs.opens < MaxOpens /\ FreeSlots(c) # {}
  /\ LET j == CHOOSE j \in FreeSlots(c) : \A k \in FreeSlots(c) : j <= k
     IN Ask(c, [op |-> "open", name |-> n, slot |-> j, id |-> None])

(* devfile_read, _write, _stat, _trunc and, from close, _flush: the file id *)
(* is read from the shared Fd page.                                         *)
OnDescriptor(c, j, op) ==
  /\ fs.held[c][j] # None
  /\ Ask(c, [op |-> op, name |-> NoName, slot |-> j, id |-> fs.opentab[fs.held[c][j]].id])

Sync(c) == Ask(c, [NoReq EXCEPT !.op = "sync"])

(* fork or spawn: another process gets the descriptors, which are shared.   *)
Inherit(c, d) ==
  /\ c # d /\ fs.client[c].step = "idle" /\ fs.client[d].step = "idle"
  /\ \A j \in Slots : fs.held[d][j] = None
  /\ \E j \in Slots : fs.held[c][j] # None
  /\ fs' = [fs EXCEPT !.held[d] = fs.held[c], !.wants[d] = fs.wants[c]]

(* A process that ends without closing loses its mappings.                  *)
Exit(c) ==
  /\ fs.client[c].step = "idle" /\ \E j \in Slots : fs.held[c][j] # None
  /\ fs' = [fs EXCEPT !.held[c] = [j \in Slots |-> None], !.wants[c] = [j \in Slots |-> NoName]]

(* A process that is destroyed while it waits for the answer.               *)
Destroyed(c) ==
  /\ fs.client[c].step \in {"sent", "recv"}
  /\ fs' = [fs EXCEPT !.client[c] = [Idle EXCEPT !.step = "gone"],
                      !.held[c] = [j \in Slots |-> None], !.wants[c] = [j \in Slots |-> NoName]]

(* ipc_send succeeds once the server is in ipc_recv.                        *)
Send(c) ==
  /\ fs.client[c].step = "send" /\ fs.server.step = "recv"
  /\ fs' = [fs EXCEPT !.client[c].step = "sent",
                      !.server = [Receiving EXCEPT !.step = "serve", !.from = c, !.req = fs.client[c].req]]

Recv(c) == fs.client[c].step = "sent" /\ fs' = [fs EXCEPT !.client[c].step = "recv"]

-----------------------------------------------------------------------------
(* The server.                                                              *)

(* openfile_alloc: the first entry whose page nobody else has mapped.       *)
CanAllocShared(s, i) == Refs(s, i) <= 2

CanAlloc(s, i) == Refs(s, i) <= 1

openfile_alloc(s) ==
  IF \A i \in Entries : ~ CanAlloc(s, i) THEN None
  ELSE CHOOSE i \in Entries : CanAlloc(s, i) /\ \A k \in 0 .. i - 1 : ~ CanAlloc(s, k)

(* openfile_lookup.                                                         *)
LookupFails(s, id) ==
  LET o == s.opentab[id % MAXOPEN] IN Refs(s, id % MAXOPEN) <= 1 \/ o.id # id

Answer(s, res, page) == [s EXCEPT !.server.step = "reply", !.server.res = res, !.server.page = page]

(* serve_open: the entry has its new id and its page is cleared even if the *)
(* file cannot be opened afterwards; the id is also the result that is      *)
(* tested for being negative.                                               *)
ServeOpen ==
  LET i == openfile_alloc(fs)
      id == (fs.opentab[i].id + MAXOPEN) % IDS
      taken == [fs EXCEPT !.opentab[i] = [@ EXCEPT !.id = id, !.alloc = TRUE]]
      opened == [taken EXCEPT !.opentab[i].file = fs.server.req.name]
  IN /\ fs.server.step = "serve" /\ fs.server.req.op = "open"
     /\ \/ i = None /\ fs' = Answer(fs, -1, None)
        \/ i # None /\ ~ fs.opentab[i].alloc /\ fs' = Answer(fs, -1, None)   \* out of memory
        \/ i # None /\ id >= IDS \div 2 /\ fs' = Answer(taken, -1, None)
        \/ i # None /\ id < IDS \div 2 /\ fs' = Answer(taken, -1, None) \* no such file
        \/ i # None /\ id < IDS \div 2 /\ fs' = Answer(opened, 0, i)

(* serve_read, serve_write, serve_stat, serve_set_size, serve_flush and     *)
(* serve_sync; what they do to the file may fail as well.                   *)
ServeRequest ==
  /\ fs.server.step = "serve" /\ fs.server.req.op # "open"
  /\ \E res \in -1 .. 0 :
       /\ fs.server.req.op # "sync" /\ LookupFails(fs, fs.server.req.id) => res = -1
       /\ fs' = Answer(fs, res, None)

(* ipc_send of the result, with the page of a file that was opened; the     *)
(* client goes on: open has its descriptor, close unmaps its own.           *)
Reply ==
  LET c == fs.server.from
      req == fs.client[c].req
      j == req.slot
  IN /\ fs.server.step = "reply" /\ fs.client[c].step = "recv"
     /\ fs' = [fs EXCEPT
          !.server = Receiving,
          !.client[c] = Idle,
          !.held[c] = CASE fs.server.page # None -> [@ EXCEPT ![j] = fs.server.page]
                        [] req.op = "flush" -> [@ EXCEPT ![j] = None]
                        [] OTHER -> @,
          !.wants[c] = CASE fs.server.page # None -> [@ EXCEPT ![j] = req.name]
                         [] req.op = "flush" -> [@ EXCEPT ![j] = NoName]
                         [] OTHER -> @]

(* sys_ipc_try_send knows no environment of that id, and ipc_send panics.   *)
ReplyToNobody ==
  /\ fs.server.step = "reply" /\ fs.client[fs.server.from].step = "gone"
  /\ fs' = [fs EXCEPT !.server.step = "panicked"]

Next ==
  \/ \E c \in Clients :
       \/ \E n \in Names : Open(c, n)
       \/ \E j \in Slots, op \in {"use", "flush"} : OnDescriptor(c, j, op)
       \/ Sync(c) \/ Exit(c) \/ Destroyed(c) \/ Send(c) \/ Recv(c)
       \/ \E d \in Clients : Inherit(c, d)
  \/ ServeOpen \/ ServeRequest \/ Reply \/ ReplyToNobody

Spec == Init /\ [][Next]_fs

-----------------------------------------------------------------------------
(* openfile_alloc never reuses an entry some process still has open: every  *)
(* descriptor leads to the file it was opened with, and the request that is *)
(* being served finds the entry its descriptor names.                       *)
DescriptorsLeadToTheirFile ==
  /\ \A c \in Clients, j \in Slots :
       fs.held[c][j] # None => fs.opentab[fs.held[c][j]].file = fs.wants[c][j]
  /\ fs.server.step = "serve" /\ fs.server.req.op \in {"use", "flush"}
       /\ fs.client[fs.server.from].step # "gone"
       => ~ LookupFails(fs, fs.server.req.id)

(* The server goes on serving whatever becomes of its clients.              *)
ServerStaysUp == fs.server.step # "panicked"
=============================================================================
