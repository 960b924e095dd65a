--------------------------- MODULE MCRequestReply ---------------------------
EXTENDS RequestReply

CONSTANT q1

\* Requests have keys of their own and share the executor only.
OneCall == {q1}
=============================================================================
