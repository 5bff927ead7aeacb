---------------------------- MODULE MCWebSocket ----------------------------
EXTENDS WebSocket, TLC

CONSTANTS c1, c2

AllKinds == {"text", "start", "end", "ping", "close", "bad"}
Frames == [c \in Clients |-> IF c = c1 THEN 2 ELSE 0]
=============================================================================
