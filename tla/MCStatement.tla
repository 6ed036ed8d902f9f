---------------------------- MODULE MCStatement ----------------------------
(* Small instances of Statement: one SQL text of every kind.               *)
EXTENDS Statement

text(kind, rows, params, n) ==
  [kind |-> kind, rows |-> rows, params |-> params, changes |-> n]

MCSelect == text("select", 2, 1, 0)
MCInsert == text("dml", 0, 1, 1)
MCDelete == text("dml", 0, 0, 0)    \* matches no row
MCCreate == text("ddl", 0, 0, 0)

MCSql == {MCSelect, MCInsert, MCDelete, MCCreate,
          text("blank", 0, 0, 0), text("invalid", 0, 0, 0)}
============================================================================
