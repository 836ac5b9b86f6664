------------------------------ MODULE NvmeData ------------------------------
(***************************************************************************)
(* The data of a request on its way to an NVMe device: the mappings and    *)
(* pools behind its nvme_iod, the chained PRP lists and the SGL that       *)
(* describe it to the controller, and their release when a step of the     *)
(* preparation fails or the request completes.                             *)
(*                                                                         *)
(* One tag's nvme_iod is used for request after request; what the last one *)
(* left in it is still there.  Addresses and lengths are in bytes, with    *)
(* pages and lists scaled down to a few bytes and entries.  The bus        *)
(* address of the k-th list is -k.                                         *)
(***************************************************************************)
EXTENDS Integers, Sequences, FiniteSets, SequencesExt

CONSTANTS
  Page,       \* NVME_CTRL_PAGE_SIZE
  ListPrps,   \* entries of a PRP list, NVME_CTRL_PAGE_SIZE >> 3
  SmallPrps,  \* entries of a list of the small pool, 256 / 8
  SmallSgls,  \* descriptors in one of the small pool, 256 / sizeof(nvme_sgl_desc)
  Threshold,  \* sgl_threshold
  Inputs,     \* the requests a tag can be used for first
  Later,      \* and those it can be used for afterwards
  MaxFail     \* bound: steps of preparations that fail

(* The block layer keeps to the driver's virtual boundary of one page: a   *)
(* segment begins on a page unless it is the first, and ends on one unless *)
(* it is the last.                                                         *)
WellFormed(sgl) ==
  /\ sgl \in Seq([addr : Nat, len : Nat \ {0}])
  /\ \A k \in DOMAIN sgl : /\ k > 1 => sgl[k].addr % Page = 0
                          /\ k < Len(sgl) => (sgl[k].addr + sgl[k].len) % Page = 0

(* blk_rq_payload_bytes() *)
BytesOf(r) == FoldSeq(LAMBDA s, n : s.len + n, 0, r.sgl)

ASSUME DataAssumption ==
  /\ Page \in Nat \ {0} /\ ListPrps \in Nat /\ SmallPrps \in 1 .. ListPrps - 1
  /\ SmallSgls \in Nat \ {0} /\ Threshold \in Nat /\ MaxFail \in Nat
  /\ \A r \in Inputs \cup Later : /\ WellFormed(r.sgl) /\ BytesOf(r) \in Nat
                                /\ {r.p2p, r.sgls, r.meta} \subseteq BOOLEAN

VARIABLES
  rq,     \* its segments, and whether they are peer-to-peer memory, whether
          \* the controller takes SGLs, whether there is metadata
  iod,    \* struct nvme_iod
  held,   \* what has been acquired for the request
  lists,  \* nvme_pci_iod_list(): the descriptor lists
  live,   \* those that are allocated
  cur,    \* locals of the loop in nvme_pci_setup_prps()
  dptr,   \* the data pointer in the command
  pc,
  fails,  \* steps that may still fail
  wrong   \* something was released that was not held, or as something else

vars == <<rq, iod, held, lists, live, cur, dptr, pc, fails, wrong>>

Init ==
  /\ rq \in Inputs
  /\ iod = [dmaLen |-> 0, nr |-> 0, nents |-> 0, useSgl |-> FALSE, first |-> 0]
  /\ held = {} /\ lists = <<>> /\ live = {}
  /\ cur = [sg |-> 1, addr |-> 0, len |-> 0, left |-> 0]
  /\ dptr = [kind |-> "none", first |-> 0, second |-> 0]
  /\ pc = "prep" /\ fails = MaxFail /\ wrong = FALSE

-----------------------------------------------------------------------------
CeilDiv(a, b) == (a + b - 1) \div b
Bytes  == BytesOf(rq)
First  == rq.sgl[1]
Offset == First.addr % Page
Go(l)  == pc' = l
Mapped == Go(IF rq.meta THEN "meta" ELSE "flight")

(* Releasing: the state afterwards, and whether it was right to. *)
Drop(things) ==
  /\ held' = held \ things
  /\ wrong' = (wrong \/ ~(things \subseteq held))

(* nvme_free_prps() and nvme_free_sgls() walk the lists by the bus address *)
(* each one's last entry gives for the next; one of the small pool is      *)
(* freed by itself.                                                        *)
BusAddr(k) == IF k = 1 THEN iod.first
              ELSE IF Len(lists[k - 1].entry) = ListPrps THEN lists[k - 1].entry[ListPrps] ELSE 0
FreedRight(ks, pool) ==
  \A k \in ks : k \in live /\ lists[k].pool = pool /\ BusAddr(k) = -k
Chain == 1 .. iod.nr

(* nvme_unmap_data(), with what else the caller releases. *)
UnmapData(more) ==
  LET small  == iod.nr = 0
      ks     == IF iod.dmaLen # 0 THEN {} ELSE IF small THEN {1} ELSE Chain
      things == more \cup (IF iod.dmaLen # 0 THEN {"page"} ELSE {"table", "sg"})
  IN /\ held' = held \ things
     /\ live' = live \ ks
     /\ wrong' = (wrong \/ ~(things \subseteq held) \/ (iod.dmaLen = 0 /\ iod.nents = 0)
                   \/ ~FreedRight(ks, IF small THEN "small" ELSE "page"))

Fails == fails > 0 /\ fails' = fails - 1

-----------------------------------------------------------------------------
(* nvme_prep_rq() *)
SetupCmd ==
  /\ pc = "prep"
  /\ iod' = [iod EXCEPT !.nr = -1, !.nents = 0]
  /\ \/ Fails /\ Go("returned") /\ UNCHANGED held
     \/ /\ held' = {"cmd"} /\ UNCHANGED fails
        /\ IF rq.sgl # <<>> THEN Go("map") ELSE Mapped
  /\ UNCHANGED <<rq, lists, live, cur, dptr, wrong>>

Simple    == Len(rq.sgl) = 1 /\ ~rq.p2p
SimplePrp == Simple /\ Offset + First.len <= 2 * Page
SimpleSgl == Simple /\ ~SimplePrp /\ Threshold # 0 /\ rq.sgls

(* nvme_setup_prp_simple() and nvme_setup_sgl_simple(): one mapped page    *)
(* range, no list.                                                         *)
MapSimple ==
  /\ pc = "map" /\ (SimplePrp \/ SimpleSgl)
  /\ \/ Fails /\ Drop({"cmd"}) /\ Go("returned") /\ UNCHANGED <<iod, dptr>>
     \/ /\ held' = held \cup {"page"}
        /\ iod' = [iod EXCEPT !.first = First.addr, !.dmaLen = First.len]
        /\ dptr' = IF SimpleSgl
                   THEN [kind |-> "sgl", first |-> First.addr, second |-> First.len]
                   ELSE [kind |-> "prp", first |-> First.addr,
                         second |-> IF First.len > Page - Offset
                                    THEN First.addr + Page - Offset ELSE 0]
        /\ Mapped /\ UNCHANGED <<fails, wrong>>
  /\ UNCHANGED <<rq, lists, live, cur>>

(* Mutant of MapTable: dma_len is left as it was. *)
MapTableStaleLen ==
  /\ pc = "map" /\ ~SimplePrp /\ ~SimpleSgl
  /\ held' = held \cup {"sg", "table"}
  /\ iod' = [iod EXCEPT !.nents = Len(rq.sgl), !.useSgl = FALSE]
  /\ Go("prps")
  /\ UNCHANGED <<rq, lists, live, cur, dptr, fails, wrong>>

(* nvme_map_data() otherwise: a scatterlist from the mempool, mapped as a  *)
(* whole, described by an SGL (nvme_pci_use_sgls()) or by PRPs.            *)
MapTable ==
  /\ pc = "map" /\ ~SimplePrp /\ ~SimpleSgl
  /\ LET useSgl == rq.sgls /\ Threshold # 0 /\ CeilDiv(Bytes, Len(rq.sgl)) >= Threshold
     IN \/ /\ Fails /\ Drop({"cmd"}) /\ Go("returned")
           /\ iod' = [iod EXCEPT !.dmaLen = 0]
        \/ /\ held' = held \cup {"sg", "table"} /\ UNCHANGED <<fails, wrong>>
           /\ iod' = [iod EXCEPT !.dmaLen = 0, !.nents = Len(rq.sgl), !.useSgl = useSgl]
           /\ Go(IF useSgl THEN "sgls" ELSE "prps")
  /\ UNCHANGED <<rq, lists, live, cur, dptr>>

(* The data is unmapped again and the command cleaned up. *)
Undo == Drop({"table", "sg", "cmd"}) /\ Go("returned")

PrpsDone(first) ==
  /\ dptr' = [kind |-> "prp", first |-> First.addr, second |-> first]
  /\ Mapped

(* nvme_pci_setup_prps() before its loop: the first page is prp1's, and a  *)
(* second one is prp2's; more need a list.                                 *)
StartPrps ==
  /\ pc = "prps"
  /\ LET left == Bytes - (Page - Offset)
         rest == First.len - (Page - Offset)
         next == IF rest # 0
                 THEN [sg |-> 1, addr |-> First.addr + Page - Offset, len |-> rest, left |-> left]
                 ELSE [sg |-> 2, addr |-> rq.sgl[2].addr, len |-> rq.sgl[2].len, left |-> left]
         pool == IF CeilDiv(left, Page) <= SmallPrps THEN "small" ELSE "page"
     IN \/ /\ left <= 0 /\ PrpsDone(0) /\ iod' = [iod EXCEPT !.first = 0]
           /\ UNCHANGED <<held, lists, live, cur, fails, wrong>>
        \/ /\ left > 0 /\ left <= Page
           /\ PrpsDone(next.addr) /\ iod' = [iod EXCEPT !.first = next.addr]
           /\ UNCHANGED <<held, lists, live, cur, fails, wrong>>
        \/ /\ left > Page /\ Fails /\ Undo
           /\ iod' = [iod EXCEPT !.nr = -1] /\ UNCHANGED <<lists, live, cur, dptr>>
        \/ /\ left > Page
           /\ lists' = <<[pool |-> pool, entry |-> <<>>]>> /\ live' = {1}
           /\ iod' = [iod EXCEPT !.nr = IF pool = "small" THEN 0 ELSE 1, !.first = -1]
           /\ cur' = next /\ Go("fill")
           /\ UNCHANGED <<held, dptr, fails, wrong>>
  /\ UNCHANGED rq

Newest == Last(lists).entry

(* Mutant of Grown: the entry the link replaces is not moved. *)
GrownUnmoved ==
  LET k == Len(lists) IN
  Append([lists EXCEPT ![k].entry[ListPrps] = -(k + 1)], [pool |-> lists[k].pool, entry |-> <<>>])

(* The lists after another one is chained to a full one: the last entry    *)
(* moves to the new list, and the link takes its place.                    *)
Grown ==
  LET k == Len(lists) IN
  Append([lists EXCEPT ![k].entry[ListPrps] = -(k + 1)],
         [pool |-> lists[k].pool, entry |-> <<Newest[ListPrps]>>])

(* One turn of the loop in nvme_pci_setup_prps(). *)
FillPrps ==
  /\ pc = "fill"
  /\ \/ /\ Len(Newest) = ListPrps /\ Fails    \* free_prps
        /\ live' = live \ Chain
        /\ held' = held \ {"table", "sg", "cmd"}
        /\ wrong' = (wrong \/ ~FreedRight(Chain, "page"))
        /\ Go("returned") /\ UNCHANGED <<iod, lists, cur, dptr>>
     \/ LET full == Len(Newest) = ListPrps
            base == IF full THEN Grown ELSE lists
            left == cur.left - Page
            len  == cur.len - Page
        IN /\ lists' = [base EXCEPT ![Len(base)].entry = Append(@, cur.addr)]
           /\ live' = live \cup {Len(base)}
           /\ iod' = IF full THEN [iod EXCEPT !.nr = @ + 1] ELSE iod
           /\ \/ left <= 0 /\ PrpsDone(iod.first) /\ UNCHANGED cur
              \/ /\ left > 0 /\ len > 0
                 /\ cur' = [cur EXCEPT !.addr = @ + Page, !.len = len, !.left = left]
                 /\ UNCHANGED <<pc, dptr>>
              \/ /\ left > 0 /\ len <= 0
                 /\ LET s == rq.sgl[cur.sg + 1] IN
                    cur' = [sg |-> cur.sg + 1, addr |-> s.addr, len |-> s.len, left |-> left]
                 /\ UNCHANGED <<pc, dptr>>
           /\ UNCHANGED <<held, fails, wrong>>
  /\ UNCHANGED rq

(* nvme_pci_setup_sgls(): NVME_MAX_SEGS is less than a page of descriptors, *)
(* so one list is enough.                                                   *)
SetupSgls ==
  /\ pc = "sgls"
  /\ LET pool == IF iod.nents <= SmallSgls THEN "small" ELSE "page"
     IN \/ /\ iod.nents = 1
           /\ dptr' = [kind |-> "sgl", first |-> First.addr, second |-> First.len]
           /\ Mapped /\ UNCHANGED <<iod, held, lists, live, fails, wrong>>
        \/ /\ iod.nents > 1 /\ Fails /\ Undo
           /\ iod' = [iod EXCEPT !.nr = -1] /\ UNCHANGED <<lists, live, dptr>>
        \/ /\ iod.nents > 1
           /\ lists' = <<[pool |-> pool, entry |-> rq.sgl]>> /\ live' = {1}
           /\ iod' = [iod EXCEPT !.nr = IF pool = "small" THEN 0 ELSE 1, !.first = -1]
           /\ dptr' = [kind |-> "segment", first |-> -1, second |-> iod.nents]
           /\ Mapped /\ UNCHANGED <<held, fails, wrong>>
  /\ UNCHANGED <<rq, cur>>

(* nvme_map_metadata(), and out_unmap_data of nvme_prep_rq(). *)
MapMetadata ==
  /\ pc = "meta"
  /\ \/ /\ Fails /\ Go("returned")
        /\ IF rq.sgl # <<>> THEN UnmapData({"cmd"}) ELSE Drop({"cmd"}) /\ UNCHANGED live
     \/ held' = held \cup {"meta"} /\ Go("flight") /\ UNCHANGED <<live, fails, wrong>>
  /\ UNCHANGED <<rq, iod, lists, cur, dptr>>

(* nvme_pci_complete_rq(): nvme_pci_unmap_rq(), then nvme_complete_rq(). *)
CompleteRq ==
  /\ pc = "flight" /\ Go("returned")
  /\ LET more == {"cmd"} \cup (IF rq.meta THEN {"meta"} ELSE {})
     IN IF rq.sgl # <<>> THEN UnmapData(more) ELSE Drop(more) /\ UNCHANGED live
  /\ UNCHANGED <<rq, iod, lists, cur, dptr, fails>>

(* The tag's next request, or the same one again. *)
NextRequest ==
  /\ pc = "returned" /\ Go("prep")
  /\ rq' \in Later
  /\ lists' = <<>>
  /\ cur' = [sg |-> 1, addr |-> 0, len |-> 0, left |-> 0]
  /\ dptr' = [kind |-> "none", first |-> 0, second |-> 0]
  /\ UNCHANGED <<iod, held, live, fails, wrong>>

Next == SetupCmd \/ MapSimple \/ MapTable \/ StartPrps \/ FillPrps \/ SetupSgls
        \/ MapMetadata \/ CompleteRq \/ NextRequest

Spec == Init /\ [][Next]_vars

-----------------------------------------------------------------------------
(* Every variable has its type. *)
TypeOK ==
  /\ iod.nr \in Int /\ (pc # "prep" => iod.nr \in -1 .. Len(lists)) /\ iod.useSgl \in BOOLEAN
  /\ held \subseteq {"cmd", "page", "table", "sg", "meta"}
  /\ live \subseteq DOMAIN lists
  /\ dptr.kind \in {"none", "prp", "sgl", "segment"}
  /\ pc \in {"prep", "map", "prps", "fill", "sgls", "meta", "flight", "returned"}
  /\ fails \in 0 .. MaxFail

(* The bytes of the request, page by page. *)
PagesOf(s) ==
  [i \in 1 .. (s.addr + s.len - 1) \div Page - s.addr \div Page + 1 |->
     IF i = 1 THEN s.addr ELSE (s.addr \div Page + i - 1) * Page]
Pages == FlattenSeq([k \in DOMAIN rq.sgl |-> PagesOf(rq.sgl[k])])

(* What the controller reads from the data pointer: it knows from the      *)
(* length how many pages there are, and takes a list's last entry for a    *)
(* link when more than one page is left.                                   *)
PrpPages ==
  LET n == Len(Pages)
      part(k) == IF k < Len(lists) THEN Front(lists[k].entry)
                                   ELSE lists[k].entry
  IN IF n = 1 THEN <<dptr.first>>
     ELSE IF n = 2 THEN <<dptr.first, dptr.second>>
     ELSE <<dptr.first>> \o FlattenSeq([k \in DOMAIN lists |-> part(k)])

PrpLinks ==
  Len(Pages) > 2 =>
    /\ dptr.second = -1
    /\ \A k \in 1 .. Len(lists) - 1 : /\ Len(lists[k].entry) = ListPrps
                                      /\ lists[k].entry[ListPrps] = -(k + 1)
    /\ Len(lists) > 1 => Len(Newest) \in 2 .. ListPrps

(* Every variable has its type, and the command in flight describes        *)
(* exactly the request's data, in order, however it is cut into segments,  *)
(* lists and links.                                                        *)
DescribesData == TypeOK /\ (
  pc = "flight" =>
    CASE dptr.kind = "prp" -> PrpPages = Pages /\ PrpLinks
      [] dptr.kind = "sgl" -> rq.sgl = <<[addr |-> dptr.first, len |-> dptr.second]>>
      [] dptr.kind = "segment" -> lists[1].entry = rq.sgl /\ dptr.second = Len(rq.sgl)
      [] OTHER -> rq.sgl = <<>>)

(* After a failure at any step, and after completion, nothing is left      *)
(* mapped or allocated, and nothing was released twice, to the wrong pool  *)
(* or by a wrong bus address, whatever an earlier request left in the      *)
(* nvme_iod (pci.c:718).                                                   *)
AllReleased == ~wrong /\ (pc = "returned" => held = {} /\ live = {})

=============================================================================
