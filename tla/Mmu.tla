-------------------------------- MODULE Mmu ---------------------------------
(***************************************************************************)
(* The MMU of the router (router/src/mmu.c): a page table that maps every   *)
(* page to the frame of its own number and a small TLB in front of it,      *)
(* replaced in FIFO order.  A translation is several steps, because nothing *)
(* but its callers' mutex keeps two threads from translating at once.       *)
(***************************************************************************)
EXTENDS Naturals, FiniteSetsExt

CONSTANTS
    NumPages,       \* NUM_PAGES
    TlbSize         \* TLB_SIZE

ASSUME MmuAssumption == NumPages \in Nat \ {0} /\ TlbSize \in Nat \ {0}

Pages == 0 .. NumPages - 1
Slots == 0 .. TlbSize - 1

VARIABLES
    tlb,            \* [Slots -> [valid, vpn, pfn]]
    tlbNextVictim   \* the next slot to replace

mmuVars == <<tlb, tlbNextVictim>>

\* initMMU writes the page table once; no call in the program changes it.
PageTable == [p \in Pages |-> p]

InitMMU ==
    /\ tlb = [i \in Slots |-> [valid |-> FALSE, vpn |-> 0, pfn |-> 0]]
    /\ tlbNextVictim = 0

Hits(vpn) == {i \in Slots : tlb[i].valid /\ tlb[i].vpn = vpn}

\* The search returns the first slot that matches.
TlbFrame(vpn) == tlb[Min(Hits(vpn))].pfn

\* The four statements of a refill, in their order.
FillVpn(vpn) == tlb' = [tlb EXCEPT ![tlbNextVictim].vpn = vpn]   /\ UNCHANGED tlbNextVictim
FillPfn(vpn) == tlb' = [tlb EXCEPT ![tlbNextVictim].pfn = PageTable[vpn]] /\ UNCHANGED tlbNextVictim
FillValid    == tlb' = [tlb EXCEPT ![tlbNextVictim].valid = TRUE] /\ UNCHANGED tlbNextVictim
\* Mutant of UpdateTLB: the victim does not wrap around.
UpdateTLBNoWrap == tlbNextVictim' = tlbNextVictim + 1             /\ UNCHANGED tlb

UpdateTLB    == tlbNextVictim' = (tlbNextVictim + 1) % TlbSize    /\ UNCHANGED tlb

MmuTypeOK ==
    /\ tlb \in [Slots -> [valid : BOOLEAN, vpn : Pages, pfn : Pages]]
    /\ tlbNextVictim \in Slots

\* A valid slot holds the page table's mapping, and no page has two slots.
TlbCoherent ==
    /\ \A i \in Slots : tlb[i].valid => tlb[i].pfn = PageTable[tlb[i].vpn]
    /\ \A i, j \in Slots : tlb[i].valid /\ tlb[j].valid /\ tlb[i].vpn = tlb[j].vpn => i = j
=============================================================================
