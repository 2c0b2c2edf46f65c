----------------------- MODULE MCGenerationPipeline -----------------------
(* Fault sets of the runs of GenerationPipeline. *)
EXTENDS GenerationPipeline

\* Everything at once.
AllFaults == FaultKinds

\* NATS stays up, the delivery count is readable and js.publish tells the
\* truth; processes stop, the databases and the storage fail.
ProcessAndDataFaults == FaultKinds \ {"nats_loss", "no_count", "publish_timeout"}

\* Failures that the handler turns into a NAK or a FAILED row.
HandledFaults ==
  {"publish_error", "storage_error", "bad_data", "algorithm_error", "solver_crash"}
=============================================================================
