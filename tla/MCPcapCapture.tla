--------------------------- MODULE MCPcapCapture ----------------------------
(* A ring of four cells, records of two and three bytes: records wrap, fill  *)
(* the buffer and are read in pieces; two hooks meet on the mutex.           *)
EXTENDS PcapCapture, TLC

SetLens == {2, 3}
SetModes == {"off", "acl"}
=============================================================================
