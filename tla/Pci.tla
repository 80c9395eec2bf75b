--------------------------------- MODULE Pci ---------------------------------
(***************************************************************************)
(* The scan of the PCI buses at boot (kern/pci.c): it visits every device  *)
(* and function, goes through bridges, matches the functions with the      *)
(* driver tables and, for the network card, finds out the address and size *)
(* of its regions by writing to its base address registers.                *)
(*                                                                         *)
(* pci.funcs is the hardware: the functions that exist, by <<bus, device,  *)
(* function>>.  The scan is one call, so it is an operator that threads    *)
(* the configuration space through: s.bar, the base address registers of   *)
(* every function, s.enabled, and s.attached, the calls of e1000_attach.   *)
(***************************************************************************)
EXTENDS Integers, Sequences, FiniteSets, SequencesExt

CONSTANTS Places,     \* <<bus, device, function>> that may hold a function
          Layouts,    \* possible base address registers of the network card
          Devices,    \* devices looked for on a bus (32)
          Functions,  \* functions of a device (8)
          Width       \* bits of a configuration register (32)

VARIABLE pci

NONE == "none"
IsBridge(k) == k \in {"bridge", "bridge32"}

(* A register: its kind, its size, the address it holds.                    *)
Flags(b) == CASE b.kind = "io" -> 1 [] b.kind = "mem64" -> 4 [] OTHER -> 0
Fixed(b) == b.kind = NONE
Ones == 2 ^ Width - 1

-----------------------------------------------------------------------------
(* The hardware.  A place where nothing is reads as all ones.               *)
Kind(f) == IF f \in DOMAIN pci.funcs THEN pci.funcs[f].kind ELSE NONE
HdrType(f) ==
  CASE Kind(f) = NONE -> 127
    [] Kind(f) = "cardbus" -> 2
    [] IsBridge(Kind(f)) -> 1
    [] OTHER -> 0
Multi(f) == Kind(f) = NONE \/ pci.funcs[f].multi

pci_conf_read(s, f, i) ==
  LET b == s.bar[f][i] IN IF Fixed(b) THEN 0 ELSE b.addr + Flags(b)
pci_conf_write(s, f, i, v) ==
  IF Fixed(s.bar[f][i]) THEN s
  ELSE [s EXCEPT !.bar[f][i].addr = v - (v % s.bar[f][i].size)]

-----------------------------------------------------------------------------
(* pci_get_bar_info.                                                        *)

(* PCI_MAPREG_MEM_ADDR, _IO_ADDR and the size: the lowest bit that is set.  *)
MapAddr(v) == IF v % 2 = 1 THEN v - (v % 4) ELSE v - (v % 16)
LowestBit(v) == 
  IF v = 0 THEN 0
  ELSE CHOOSE p \in {2 ^ k : k \in 0 .. Width} : v % p = 0 /\ v % (2 * p) # 0
MapSize(v) == LowestBit(MapAddr(v))
Is64(v) == v % 2 = 0 /\ (v % 8) \div 2 = 2

(* The register gets its old value back once its size is known.             *)
RestoreNever(w, f, i, old) == w
Restore(w, f, i, old) == pci_conf_write(w, f, i, old)

RECURSIVE GetBars(_, _, _)
GetBars(s, f, i) ==
  LET old == pci_conf_read(s, f, i)
      w == pci_conf_write(s, f, i, Ones)
      rv == pci_conf_read(w, f, i)
      r == [Restore(w, f, i, old) EXCEPT
              !.region = [@ EXCEPT ![i] = [base |-> MapAddr(old), size |-> MapSize(rv)]]]
  IN IF i > Len(s.bar[f]) THEN s
     ELSE IF rv = 0 THEN GetBars(w, f, i + 1)
     ELSE GetBars(r, f, IF Is64(rv) THEN i + 2 ELSE i + 1)

NoRegion == [base |-> 0, size |-> 0]
pci_get_bar_info(s, f) ==
  GetBars([s EXCEPT !.enabled = @ \cup {f}, !.region = [i \in DOMAIN s.bar[f] |-> NoRegion]], f, 1)

(* e1000_attach; what it does with its regions is in E1000Rx and E1000Tx.   *)
e1000_attach(s, f) ==
  LET t == pci_get_bar_info(s, f)
  IN [t EXCEPT !.attached = Append(@, [func |-> f, regions |-> t.region])]

-----------------------------------------------------------------------------
(* The scan.                                                                *)

RECURSIVE pci_scan_bus(_, _)

pci_bridge_attach(s, f) == pci_scan_bus(s, pci.funcs[f].bus)

(* pci_attach: first by class, then by vendor; a bridge whose I/O addresses *)
(* have 32 bits is not followed.                                            *)
pci_attach(s, f) ==
  CASE Kind(f) = "bridge" -> pci_bridge_attach(s, f)
    [] Kind(f) = "nic" -> e1000_attach(s, f)
    [] OTHER -> s

ScanFunction(s, f) == IF Kind(f) = NONE THEN s ELSE pci_attach(s, f)

ScanDevice(s, b, d) ==
  LET first == <<b, d, 0>>
      n == IF Multi(first) THEN Functions ELSE 1
      F(t, k) == ScanFunction(t, <<b, d, k - 1>>)
  IN IF HdrType(first) > 1 THEN s
     ELSE FoldLeft(F, s, [k \in 1 .. n |-> k])

pci_scan_bus(s, b) ==
  LET D(t, k) == ScanDevice(t, b, k - 1)
  IN FoldLeft(D, s, [k \in 1 .. Devices |-> k])

pci_init(bars) ==
  pci_scan_bus([bar |-> bars, enabled |-> {}, attached |-> <<>>, region |-> <<>>], 0)

-----------------------------------------------------------------------------
(* The machines: at most one bridge leads to bus 1.                         *)
Kinds(f) == {NONE, "nic", "cardbus", "other"} \cup (IF f[1] = 0 THEN {"bridge", "bridge32"} ELSE {})

Init ==
  \E kind \in [Places -> {NONE, "nic", "cardbus", "other", "bridge", "bridge32"}],
     multi \in SUBSET {f \in Places : f[3] = 0}, layout \in Layouts :
    /\ \A f \in Places : kind[f] \in Kinds(f)
    /\ Cardinality({f \in Places : IsBridge(kind[f])}) <= 1
    /\ multi \subseteq {f \in Places : kind[f] # NONE}
    /\ pci = [funcs |-> [f \in {g \in Places : kind[g] # NONE} |->
                           [kind |-> kind[f], multi |-> f \in multi, bus |-> 1]],
              layout |-> layout]

Bars == [f \in DOMAIN pci.funcs |-> IF pci.funcs[f].kind = "nic" THEN pci.layout ELSE <<>>]

-----------------------------------------------------------------------------
(* What PCI says is there: a function answers if function 0 of its device   *)
(* has a header the kernel knows and announces more functions, and its bus  *)
(* is bus 0 or lies behind a bridge that is there and has 16-bit I/O.       *)
There(f) ==
  /\ Kind(f) # NONE
  /\ HdrType(<<f[1], f[2], 0>>) <= 1
  /\ f[3] = 0 \/ Multi(<<f[1], f[2], 0>>)
Behind(b) == b = 0 \/ \E f \in DOMAIN pci.funcs : Kind(f) = "bridge" /\ There(f)
Cards == {f \in DOMAIN pci.funcs : Kind(f) = "nic" /\ There(f) /\ Behind(f[1])}

Expected(b, upper) == IF Fixed(b) \/ upper THEN NoRegion ELSE [base |-> b.addr, size |-> b.size]

(* The state s after the scan is what PCI says it should be.                *)
ScanRight(s) ==
  LET Upper(i) == i > 1 /\ pci.layout[i - 1].kind = "mem64"
      regions == [i \in DOMAIN pci.layout |-> Expected(pci.layout[i], Upper(i))]
  IN /\ s.bar = Bars
     /\ s.enabled = Cards
     /\ Len(s.attached) = Cardinality(Cards)
     /\ {s.attached[k].func : k \in DOMAIN s.attached} = Cards
     /\ \A k \in DOMAIN s.attached : s.attached[k].regions = regions

(* pci_init attaches every network card that can be reached, once, with the *)
(* base and the size of each of its regions, enables these functions and no *)
(* others, and leaves every base address register as the firmware set it,   *)
(* although the sizes are found by overwriting them (pci_scan_bus,          *)
(* pci_bridge_attach, pci_get_bar_info).                                    *)
CardsAttached == ScanRight(pci_init(Bars))
=============================================================================
