---------------------------- MODULE DealBuilder ----------------------------
(***************************************************************************)
(* The deal builders of pkg/mk20/builders.go, and the shapes of            *)
(* pkg/mk20/types.go they fill in.  A builder is a pure function of its    *)
(* options and of the identifier that newULID made.                        *)
(*                                                                         *)
(* An option that is not given, a string that is empty and a CID that is   *)
(* undefined are Unset.  What may be absent of a deal (a nil pointer) is a *)
(* set of at most one member, and so is the result of a builder, empty for *)
(* an error.  Fields that no builder fills (aggregate and offline sources, *)
(* the other formats and PDP operations) are left out of the records, and  *)
(* so are those that pass through unlooked at (MarketDealID,               *)
(* NotificationAddress, ExtraData).                                        *)
(***************************************************************************)
EXTENDS Integers

CONSTANTS
  Unset,            \* an option not given, "" or an undefined CID
  DefaultDuration   \* 518400 epochs

ASSUME DurationAssumption == DefaultDuration \in Nat \ {0}

Raw == "raw"

HTTPPut == [put |-> TRUE, urls |-> {}]
HTTP(url) == [put |-> FALSE, urls |-> {url}]

\* A slip the model must notice: a URL given beside the push is ignored.
SourceOfFirst(o) ==
  IF o.HTTPPutSource THEN {HTTPPut}
  ELSE {HTTP(url) : url \in {o.HTTPSourceURL} \ {Unset}}

\* The source of the bytes that the options name, if it is exactly one.
SourceOf(o) ==
  IF o.HTTPPutSource THEN {HTTPPut : url \in {o.HTTPSourceURL} \cap {Unset}}
  ELSE {HTTP(url) : url \in {o.HTTPSourceURL} \ {Unset}}

\* buildDataSource
DataSource(o) ==
  IF o.PieceCID = Unset \/ o.PayloadSize = 0 THEN {}
  ELSE {[PieceCID |-> o.PieceCID, Format |-> Raw, Source |-> source] :
          source \in SourceOf(o)}

TrueUnlessSet(flag) == IF flag = Unset THEN TRUE ELSE flag

\* buildRetrieval
RetrievalV1(o) ==
  [Indexing |-> TrueUnlessSet(o.RetrievalIndexing),
   IndexAnnounce |-> TrueUnlessSet(o.RetrievalIndexAnnounce)]

DDOV1(o) ==
  [Provider |-> o.ColdProvider,
   StartEpoch |-> o.ColdStartEpoch,
   Duration |-> IF o.ColdDuration = 0 THEN DefaultDuration ELSE o.ColdDuration,
   AllocationID |-> o.ColdAllocationID,
   MarketAddress |-> o.ColdMarketAddress]

PDPV1(add, o) ==
  [CreateDataSet |-> ~add, AddPiece |-> add,
   DataSetID |-> o.HotDataSetID, RecordKeeper |-> o.HotRecordKeeper]

Deal(id, o, data, ddo, pdp, retrieval) ==
  [Identifier |-> id, Client |-> o.ClientAddress, Data |-> data,
   Products |-> [DDOV1 |-> ddo, PDPV1 |-> pdp, RetrievalV1 |-> retrieval]]

NewDDODeal(id, o) ==
  IF \/ o.ClientAddress = Unset
     \/ o.ColdProvider = Unset
     \/ o.ColdAllocationID = Unset /\ o.ColdMarketAddress = Unset
  THEN {}
  ELSE {Deal(id, o, {data}, {DDOV1(o)}, {}, {RetrievalV1(o)}) :
          data \in DataSource(o)}

NewPDPDeal(id, o) ==
  IF \/ o.ClientAddress = Unset
     \/ o.HotDataSetID = Unset
     \/ o.HotRecordKeeper = Unset
  THEN {}
  ELSE {Deal(id, o, {data}, {}, {PDPV1(TRUE, o)}, {RetrievalV1(o)}) :
          data \in DataSource(o)}

\* Its arguments are two of the options; the others are as they stand unset.
NewPDPCreateDataSetDeal(id, o) ==
  IF o.ClientAddress = Unset \/ o.HotRecordKeeper = Unset
  THEN {}
  ELSE {Deal(id, o, {}, {},
             {[PDPV1(FALSE, o) EXCEPT !.DataSetID = Unset]}, {})}

-----------------------------------------------------------------------------
(* What the protocol asks of a deal (docs/PROTOCOL-NOTES.md 33-57).        *)

HasData(deal) == deal.Data # {}

\* Sealed or warm storage, not both.
OneProduct(deal) ==
  (deal.Products.DDOV1 = {}) # (deal.Products.PDPV1 = {})

\* DDO needs an allocation or a market contract, PDP a record keeper and, to
\* add a piece, a data set; a deal with bytes can be retrieved, another not.
ProductsComplete(deal) ==
  /\ \A ddo \in deal.Products.DDOV1 :
       /\ HasData(deal) /\ ddo.Duration # 0
       /\ ddo.AllocationID # Unset \/ ddo.MarketAddress # Unset
  /\ \A pdp \in deal.Products.PDPV1 :
       /\ pdp.RecordKeeper # Unset
       /\ pdp.AddPiece = HasData(deal)
       /\ pdp.AddPiece = (pdp.DataSetID # Unset)
  /\ HasData(deal) = (deal.Products.RetrievalV1 # {})

\* The bytes are committed to and come either by push or from one URL.
SourceComplete(deal) ==
  \A data \in deal.Data :
    /\ data.PieceCID # Unset
    /\ data.Source.put = (data.Source.urls = {})

Sound(deal) ==
  OneProduct(deal) /\ ProductsComplete(deal) /\ SourceComplete(deal)

\* The options describe one stretch of bytes and one way to get them.
DescribesData(o) ==
  /\ o.PieceCID # Unset /\ o.PayloadSize > 0
  /\ o.HTTPPutSource = (o.HTTPSourceURL = Unset)

\* Every combination of options given or not, for one value of each.
Options(client, piece, url, provider, allocation, market, dataSet, keeper) ==
  [ClientAddress : {Unset, client},
   PieceCID : {Unset, piece}, PayloadSize : {0, 1},
   HTTPSourceURL : {Unset, url}, HTTPPutSource : BOOLEAN,
   ColdProvider : {Unset, provider}, ColdDuration : {0, 1},
   ColdAllocationID : {Unset, allocation}, ColdMarketAddress : {Unset, market},
   ColdStartEpoch : {Unset},
   HotDataSetID : {Unset, dataSet}, HotRecordKeeper : {Unset, keeper},
   RetrievalIndexing : {Unset, FALSE}, RetrievalIndexAnnounce : {Unset}]

\* What the options ask for and nothing else: the builders accept exactly the
\* options that describe a deal of their kind, and what they build is sound and
\* carries the client, the piece and the identifier it was asked for.
BuilderRight(id, o) ==
  LET ddo == NewDDODeal(id, o)
      pdp == NewPDPDeal(id, o)
      create == NewPDPCreateDataSetDeal(id, o)
  IN /\ ddo # {} <=>
          /\ o.ClientAddress # Unset /\ DescribesData(o)
          /\ o.ColdProvider # Unset
          /\ o.ColdAllocationID # Unset \/ o.ColdMarketAddress # Unset
     /\ pdp # {} <=>
          /\ o.ClientAddress # Unset /\ DescribesData(o)
          /\ o.HotDataSetID # Unset /\ o.HotRecordKeeper # Unset
     /\ create # {} <=>
          o.ClientAddress # Unset /\ o.HotRecordKeeper # Unset
     /\ \A deal \in ddo \union pdp \union create :
          /\ Sound(deal)
          /\ deal.Identifier = id /\ deal.Client = o.ClientAddress
     /\ \A deal \in ddo \union pdp : \A data \in deal.Data :
          data.PieceCID = o.PieceCID
=============================================================================
