---- MODULE MCKeyspace ----
EXTENDS Keyspace
====
