----------------------------- MODULE MCProcess -----------------------------
EXTENDS Process

AllKinds == {"exec", "exec2", "exec3", "fork"}
AllFaults == {"pipe", "fork", "popen", "read"}
=============================================================================
