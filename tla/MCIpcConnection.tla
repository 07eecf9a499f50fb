-------------------------- MODULE MCIpcConnection --------------------------
(* A small instance of IpcConnection for TLC. *)
EXTENDS IpcConnection

(* A request without arguments, one with an empty and one with an argument *)
(* of some bytes                                                           *)
MCRequests ==
  { [code |-> IPC_CMDQ_GET_STATE, args |-> <<>>],
    [code |-> IPC_CMDQ_STOPPRINT, args |-> << <<>> >>],
    [code |-> IPC_CMDQ_APPEND_FILE, args |-> << <<47, 0>> >>] }

(* With packets of three bytes: an empty text; one that fits; line breaks  *)
(* at, before and after the end of a packet; a line that is too long       *)
(* behind one that is not; a text without a line break at its end.         *)
MCTexts ==
  { <<>>, <<71, 10>>, <<71, 71, 10, 71, 10>>, <<71, 10, 71, 71, 10>>,
    <<71, 10, 71, 71, 71, 10>>, <<71, 10, 10, 77>> }
=============================================================================
