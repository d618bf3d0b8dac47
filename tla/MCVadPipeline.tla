---------------------------- MODULE MCVadPipeline ----------------------------
(* VadPipeline with chunks of five samples: a short packet, a chunk exactly  *)
(* on both thresholds (silence), a loud one and one that crosses zero often. *)
EXTENDS VadPipeline

MCPayloads == {<<900>>, <<512, 512, -512, -512, -512>>, <<600, 600, 600, 600, 600>>,
               <<3, -3, 3, -3, 3>>}
==============================================================================
