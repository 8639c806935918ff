---------------------------- MODULE MCBatchTables ----------------------------
(* Small batches for TLC: rows that repeat an id, identical lines, broken     *)
(* rows, orders of unknown products, payments without an order.             *)
EXTENDS BatchTables

Entity(id, h, copy, bad) == [id |-> id, h |-> h, copy |-> copy, bad |-> bad, empty |-> FALSE]
Order(id, h, at, bad, product, day) ==
  [id |-> id, h |-> h, copy |-> 1, bad |-> bad, empty |-> FALSE, at |-> at,
   customer |-> 1, product |-> product, day |-> day]
Payment(id, h, order, bad, captured, empty) ==
  [id |-> id, h |-> h, copy |-> 1, bad |-> bad, empty |-> empty, order |-> order,
   captured |-> captured]

Customers == {{Entity(1, 1, 1, FALSE), Entity(1, 1, 2, FALSE)}}
\* Product 1 alone, beside a broken line of it that wins the ranking, or with product 2.
Products == {{Entity(1, 1, 1, FALSE)},
             {Entity(1, 1, 1, FALSE), Entity(1, 2, 1, TRUE)},
             {Entity(1, 1, 1, FALSE), Entity(2, 3, 1, FALSE)}}

\* Order 1 twice, once more as a broken line that wins the ranking; order 2 is for
\* product 2; order 3 falls on another day.
First == Order(1, 1, 1, FALSE, 1, 1)
Newer == Order(1, 2, 2, FALSE, 1, 2)
Broken == Order(1, 3, 3, TRUE, 1, 1)
Second == Order(2, 4, 1, FALSE, 2, 1)
Third == Order(3, 5, 1, FALSE, 1, 2)
Orders == {{First}, {First, Newer}, {First, Newer, Broken}, {First, Second}, {Newer, Third}, {Second}}

\* Payment 1 twice; payments of both orders; a refused one; one without its amount.
Paid == Payment(1, 1, 1, FALSE, TRUE, FALSE)
Payments == {{Paid}, {Paid, Payment(1, 2, 1, FALSE, FALSE, FALSE)},
             {Paid, Payment(2, 3, 3, FALSE, FALSE, FALSE)},
             {Paid, Payment(3, 4, 1, TRUE, TRUE, FALSE)},
             {Paid, Payment(4, 5, 1, FALSE, TRUE, TRUE)}}

MCLanding == [customers : Customers, products : Products, orders : Orders, payments : Payments]
=============================================================================
