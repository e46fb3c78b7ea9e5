---- MODULE MCMcpServer ----
(* The runs of McpServer need numbers only. *)
EXTENDS McpServer
=============================
