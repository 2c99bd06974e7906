---------------------------- MODULE MCRpcMessage ----------------------------
(* Heads of two bytes, bodies of none to three, three frames, and reads of *)
(* up to four bytes: a chunk may end before, inside and after every head   *)
(* and body, and may span three frames.  Data of two bytes is at the size  *)
(* limit and fills a chunk; zlib makes one byte of it, or two, which just  *)
(* fill the buffer.                                                        *)
EXTENDS RpcMessage
=============================================================================
