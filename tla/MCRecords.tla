------------------------------ MODULE MCRecords ------------------------------
(* Small instances of the modules about records that must not lie or be lost: *)
(* one decision and the recovery of its intents, the ledger of closed trades,   *)
(* the reads of protective orders, and the worker under its supervisors.  Each  *)
(* behaviour is of one of them (part); the others rest in their initial states. *)
EXTENDS MCEntryOrder, MCLedger, AlgoReader, WorkerSupervision

VARIABLE part
recordVars == <<part, vars, readerVars, ledgerVars, supervisionVars>>

RecordInit ==
  /\ part \in {"entry", "ledger", "reader", "supervision"}
  /\ Init /\ ReaderInit
  /\ LedgerInit /\ (part # "ledger" => inUse = myAccount)
  /\ SupervisionInit /\ (part # "supervision" => pidFile = NoProcess)

RecordNext ==
  \/ part = "entry" /\ Next /\ UNCHANGED <<part, readerVars, ledgerVars, supervisionVars>>
  \/ part = "reader" /\ ReaderNext /\ UNCHANGED <<part, vars, ledgerVars, supervisionVars>>
  \/ part = "ledger" /\ LedgerNext /\ UNCHANGED <<part, vars, readerVars, supervisionVars>>
  \/ part = "supervision" /\ SupervisionNext /\ UNCHANGED <<part, vars, readerVars, ledgerVars>>

RecordSpec == RecordInit /\ [][RecordNext]_recordVars

EntryLive == part = "entry" /\ RecoveryFairness => LostIntentRetired
ReaderLive == part = "reader" /\ ReaderFairness => ReadsEnd
LedgerLive == part = "ledger" /\ LedgerFairness => LedgerSettles
SupervisionLive == part = "supervision" /\ SupervisionFairness => WorkerComesBack

(* Each part gets on with its work.                                           *)
RecordsLive == EntryLive /\ ReaderLive /\ LedgerLive /\ SupervisionLive
=============================================================================
