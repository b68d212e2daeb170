----------------------------- MODULE MCChannels -----------------------------
EXTENDS Channels

CONSTANT Asked   \* bound: how many decisions are asked

MCDecisions == 1 .. Asked
=============================================================================
