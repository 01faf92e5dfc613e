-------------------------- MODULE MCQuarantineFile ---------------------------
(* The statefile under one writing thread, as its comment assumes, and     *)
(* under two, as asyncio.to_thread runs the envs of one trainer.           *)
EXTENDS QuarantineFile
==============================================================================
