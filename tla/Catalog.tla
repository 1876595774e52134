------------------------------ MODULE Catalog ------------------------------
(***************************************************************************)
(* Products, categories and locations: the part of the inventory service    *)
(* that takes no row locks.                                                 *)
(*                                                                         *)
(* A call reads what it needs, one statement at a time, decides, and then   *)
(* flushes and commits once.  Between two statements other calls commit, so *)
(* what a call has read may be out of date when it writes; then only the    *)
(* constraints of the tables stand in its way, and an error of theirs is    *)
(* not caught: the caller gets an unhandled error and nothing is written.   *)
(* The SKU of a product is unique, the names of categories and of locations *)
(* are not.  Products are never deleted, only switched off.                 *)
(*                                                                         *)
(* `crossed` of a call says that another call on the same thing committed   *)
(* since it began; it and the variables of history are for properties only. *)
(***************************************************************************)
EXTENDS Integers, FiniteSets

CONSTANTS
    Products, Categories, Locations,             \* identities
    Skus, CategoryNames, LocationNames,
    Requests,
    MaxCalls,                                    \* bound on the calls of a behaviour
    Unknown,                                     \* an id that no product ever has
    None, Gone

\* None stands for NULL, and the names of categories and of locations are two columns.
ASSUME CatalogConstants ==
    /\ MaxCalls \in Nat
    /\ Unknown \in Products
    /\ {None, Gone} \cap (Skus \cup CategoryNames \cup LocationNames) = {}
    /\ None \notin Products \cup Categories \cup Locations
    /\ None # Gone
    /\ CategoryNames \cap LocationNames = {}

VARIABLES
    category,    \* category[c]: its name; None before it is created, Gone after it is deleted
    location,    \* location[l]: likewise
    product,     \* product[p]: SKU, None before it is created, and whether it is active
    links,       \* inventory_product_categories
    stocks,      \* keys of the inventory_stock rows
    pc, call,    \* the next step of each call, or how it ended, and what it holds
    doubled,     \* names that two calls that crossed have written
    unlinked,    \* products that have been taken out of a category
    calls

tables == <<category, location, product, links, stocks>>
vars   == <<tables, pc, call, doubled, unlinked, calls>>

NoProduct   == [sku |-> None, active |-> FALSE]
ProductRows == [sku: Skus, active: BOOLEAN] \cup {NoProduct}

Live(row) == row \notin {None, Gone}

NoCall == [op |-> "none", name |-> None, sku |-> None, category |-> None,
           location |-> None, product |-> None, loaded |-> {}, was |-> NoProduct,
           named |-> None, crossed |-> FALSE]

NameOps     == {"create_category", "create_location", "update_location"}
CategoryOps == {"delete_category", "add_to_category", "remove_from_category"}
ProductOps  == {"create_product", "update_product", "activate_product", "deactivate_product"}
Ops         == NameOps \cup CategoryOps \cup ProductOps \cup {"delete_location", "initialize_stock"}

Calls == [op: Ops \cup {"none"}, name: CategoryNames \cup LocationNames \cup {None},
          sku: Skus \cup {None}, category: Categories \cup {None},
          location: Locations \cup {None}, product: Products \cup {None},
          loaded: SUBSET Products, was: ProductRows, named: LocationNames \cup {None},
          crossed: BOOLEAN]

Ended == {"idle", "done", "rejected", "error"}
PCs   == Ended \cup {"name", "sku", "load", "stock", "write", "refresh"}

\* A small catalogue that the calls find.
Init ==
    /\ \E c \in Categories, n \in CategoryNames :
          category = [[d \in Categories |-> None] EXCEPT ![c] = n]
    /\ \E l \in Locations, n \in LocationNames :
          location = [[m \in Locations |-> None] EXCEPT ![l] = n]
    /\ \E p \in Products \ {Unknown}, k \in Skus :
          /\ product = [[q \in Products |-> NoProduct]
                           EXCEPT ![p] = [sku |-> k, active |-> TRUE]]
          /\ links = {p} \X {c \in Categories : Live(category[c])}
    /\ stocks = {}
    /\ pc = [r \in Requests |-> "idle"]
    /\ call = [r \in Requests |-> NoCall]
    /\ doubled = {} /\ unlinked = {}
    /\ calls = 0

-----------------------------------------------------------------------------
(* Calls *)

\* What a call is about: two calls cross if they share some of it.  The SKU of a
\* product and its being active are two things.
Subjects(c) ==
    ({c.name, c.sku, c.category, c.location} \ {None})
      \cup CASE c.op \in {"create_product", "update_product"}       -> {<<c.product, "sku">>}
             [] c.op \in {"activate_product", "deactivate_product"} -> {<<c.product, "active">>}
             [] OTHER -> {}

\* Request r makes call c; `first` is its first statement.
Begin(r, c, first) ==
    /\ pc[r] \in Ended /\ calls < MaxCalls
    /\ calls' = calls + 1
    /\ pc' = [pc EXCEPT ![r] = first]
    /\ call' = [call EXCEPT ![r] = c]
    /\ UNCHANGED <<tables, doubled, unlinked>>

Goto(r, step) ==
    /\ pc' = [pc EXCEPT ![r] = step]
    /\ UNCHANGED <<tables, call, doubled, unlinked, calls>>

\* The transaction of call c, which is r's, is committed; calls about the same notice.
\* What was not deleted is read once more.
Commit(r, c) ==
    /\ pc' = [pc EXCEPT ![r] = IF c.op \in {"delete_category", "delete_location"}
                               THEN "done" ELSE "refresh"]
    /\ call' = [q \in Requests |->
                  IF q = r THEN c
                  ELSE [call[q] EXCEPT !.crossed = @ \/ Subjects(call[q]) \cap Subjects(c) # {}]]
    /\ UNCHANGED calls

\* The constraints let the write through, or the call ends in an unhandled error.
Fails(r) == Goto(r, "error")

Request(op) == [NoCall EXCEPT !.op = op]

\* An id that no row has is "not found" wherever the service looks at what it read.
\* add_to_category, remove_from_category and initialize_stock read the product and do
\* not look, so for them it may be unknown.
MayAskFor(p) == p = Unknown \/ product[p] # NoProduct

BeginCatalogCall(r) ==
    \/ \E n \in CategoryNames :
          Begin(r, [Request("create_category") EXCEPT !.name = n], "name")
    \/ \E c \in Categories :
          /\ category[c] # None
          /\ \/ Begin(r, [Request("delete_category") EXCEPT !.category = c], "load")
             \/ \E p \in Products, op \in {"add_to_category", "remove_from_category"} :
                   /\ MayAskFor(p)
                   /\ Begin(r, [Request(op) EXCEPT !.category = c, !.product = p], "load")
             \/ \E k \in Skus :
                   Begin(r, [Request("create_product") EXCEPT !.category = c, !.sku = k], "sku")

BeginUpdate(r, p) ==
    \/ \E k \in Skus :
          Begin(r, [Request("update_product") EXCEPT !.product = p, !.sku = k], "sku")
    \/ Begin(r, [Request("update_product") EXCEPT !.product = p], "load")
    \/ \E op \in {"activate_product", "deactivate_product"} :
          Begin(r, [Request(op) EXCEPT !.product = p], "load")

BeginProductCall(r) ==
    \E p \in Products :
        /\ MayAskFor(p)
        /\ \/ \E l \in Locations :
                 /\ location[l] # None
                 /\ Begin(r, [Request("initialize_stock") EXCEPT !.product = p, !.location = l],
                          "load")
           \/ p # Unknown /\ BeginUpdate(r, p)

BeginLocationCall(r) ==
    \/ \E n \in LocationNames :
          Begin(r, [Request("create_location") EXCEPT !.name = n], "name")
    \/ \E l \in Locations :
          /\ location[l] # None
          /\ \/ Begin(r, [Request("delete_location") EXCEPT !.location = l], "load")
             \/ \E n \in LocationNames :
                   Begin(r, [Request("update_location") EXCEPT !.location = l, !.name = n], "name")
             \/ Begin(r, [Request("update_location") EXCEPT !.location = l], "load")

-----------------------------------------------------------------------------
(* Reads *)

CategoriesNamed(n) == {c \in Categories : category[c] = n}
LocationsNamed(n)  == {l \in Locations : location[l] = n}

\* Slip: a rename does not look whether the name is taken.
TakenByNew(c, found) == IF c.op = "update_location" THEN {} ELSE found

\* Those found under the name that stand in the way of call c.
Taken(c, found) == found \ {c.location}

\* get_by_name: a name that two rows have is an unhandled error.  The row of the
\* caller itself, if it is the one found, is loaded from here on.
CheckName(r) ==
    LET c == call[r]
        found == CategoriesNamed(c.name) \cup LocationsNamed(c.name)
    IN
    /\ pc[r] = "name"
    /\ pc' = [pc EXCEPT ![r] = IF Cardinality(found) > 1 THEN "error"
                               ELSE IF Taken(c, found) # {} THEN "rejected"
                               ELSE IF c.op = "update_location" THEN "load" ELSE "write"]
    /\ call' = [call EXCEPT ![r].named = IF c.location \in found THEN c.name ELSE None]
    /\ UNCHANGED <<tables, doubled, unlinked, calls>>

\* get_by_sku: likewise.
CheckSku(r) ==
    LET c == call[r]
        found == {p \in Products : product[p].sku = c.sku}
    IN
    /\ pc[r] = "sku"
    /\ pc' = [pc EXCEPT ![r] = IF found \ {c.product} # {} THEN "rejected" ELSE "load"]
    /\ call' = [call EXCEPT ![r].was = IF c.product \in found THEN product[c.product] ELSE @]
    /\ UNCHANGED <<tables, doubled, unlinked, calls>>

ProductsOf(c) == {p \in Products : <<p, c>> \in links}

IsThere(c) ==
    /\ c.category # None => Live(category[c.category])
    /\ c.location # None => Live(location[c.location])

\* get_category with its products, get_location, or the product: gone is "not found".
\* A row that the session has loaded before keeps its values.
Load(r) ==
    LET c == call[r]
        next == IF c.op \in {"delete_location", "initialize_stock"} THEN "stock" ELSE "write"
    IN
    /\ pc[r] = "load"
    /\ pc' = [pc EXCEPT ![r] = IF IsThere(c) THEN next ELSE "rejected"]
    /\ call' = [call EXCEPT
          ![r].loaded = IF c.op \in CategoryOps THEN ProductsOf(c.category) ELSE {},
          ![r].was = IF c.op \in ProductOps \ {"create_product"} /\ @ = NoProduct
                     THEN product[c.product] ELSE @,
          ![r].named = IF c.op = "update_location" /\ @ = None /\ IsThere(c)
                       THEN location[c.location] ELSE @]
    /\ UNCHANGED <<tables, doubled, unlinked, calls>>

\* refresh after the commit: the row may have been deleted since, its write not undone.
Refresh(r) ==
    /\ pc[r] = "refresh"
    /\ Goto(r, IF call[r].op \in {"create_product", "initialize_stock"} \/ IsThere(call[r])
               THEN "done" ELSE "error")

\* Slip: delete_location relies on the constraints.
HoldsStockNever(l) == FALSE

\* location_has_stock
HoldsStock(l) == \E p \in Products : <<p, l>> \in stocks

\* location_has_stock, or the search for a stock row that exists already.
CheckStock(r) ==
    LET c == call[r] IN
    /\ pc[r] = "stock"
    /\ Goto(r, IF \/ c.op = "delete_location" /\ HoldsStock(c.location)
                  \/ c.op = "initialize_stock" /\ <<c.product, c.location>> \in stocks
               THEN "rejected" ELSE "write")

-----------------------------------------------------------------------------
(* Writes *)

Writes(r, op) == pc[r] = "write" /\ call[r].op = op

Doubled(r, n) == IF call[r].crossed THEN doubled \cup {n} ELSE doubled

InsertCategory(r) ==
    \E c \in Categories :
        /\ Writes(r, "create_category") /\ category[c] = None
        /\ category' = [category EXCEPT ![c] = call[r].name]
        /\ Commit(r, [call[r] EXCEPT !.category = c])
        /\ doubled' = Doubled(r, call[r].name)
        /\ UNCHANGED <<location, product, links, stocks, unlinked>>

InsertLocation(r) ==
    \E l \in Locations :
        /\ Writes(r, "create_location") /\ location[l] = None
        /\ location' = [location EXCEPT ![l] = call[r].name]
        /\ Commit(r, [call[r] EXCEPT !.location = l])
        /\ doubled' = Doubled(r, call[r].name)
        /\ UNCHANGED <<category, product, links, stocks, unlinked>>

\* update_location: get_location has found the row, the UPDATE may not.
SaveLocation(r) ==
    LET l == call[r].location
        n == call[r].name
    IN
    /\ Writes(r, "update_location")
    /\ IF ~Live(location[l]) THEN Fails(r)
       ELSE /\ location' = IF n \in {None, call[r].named} THEN location
                           ELSE [location EXCEPT ![l] = n]
            /\ Commit(r, call[r])
            /\ doubled' = IF n = None THEN doubled ELSE Doubled(r, n)
            /\ UNCHANGED <<category, product, links, stocks, unlinked>>

\* delete_location reads the location again; stock opened since then forbids the DELETE.
DeleteLocation(r) ==
    LET l == call[r].location IN
    /\ Writes(r, "delete_location")
    /\ IF \E p \in Products : <<p, l>> \in stocks THEN Fails(r)
       ELSE /\ location' = [location EXCEPT ![l] = Gone]
            /\ Commit(r, call[r])
            /\ UNCHANGED <<category, product, links, stocks, doubled, unlinked>>

\* Slip: the column is no foreign key.
MayStockAnywhere(p, l) == <<p, l>> \notin stocks

\* The constraints of inventory_stock.
MayStock(p, l) == product[p] # NoProduct /\ Live(location[l]) /\ <<p, l>> \notin stocks

InsertStock(r) ==
    LET c == call[r] IN
    /\ Writes(r, "initialize_stock")
    /\ IF ~MayStock(c.product, c.location) THEN Fails(r)
       ELSE /\ stocks' = stocks \cup {<<c.product, c.location>>}
            /\ Commit(r, c)
            /\ UNCHANGED <<category, location, product, links, doubled, unlinked>>

SkuIsFree(k, p) == \A q \in Products \ {p} : product[q].sku # k

\* Slip: the category is read once more, and a product may be born without one.
MayLinkOrLeave(c) == TRUE

\* The foreign key of inventory_product_categories to categories.
MayLink(c) == Live(category[c])

\* create_product: the session still holds the category it has read.
InsertProduct(r) ==
    LET c == call[r].category IN
    /\ Writes(r, "create_product")
    /\ IF ~(SkuIsFree(call[r].sku, None) /\ MayLink(c)) THEN Fails(r)
       ELSE \E p \in Products \ {Unknown} :
                /\ product[p] = NoProduct
                /\ product' = [product EXCEPT ![p] = [sku |-> call[r].sku, active |-> TRUE]]
                /\ links' = IF Live(category[c]) THEN links \cup {<<p, c>>} ELSE links
                /\ Commit(r, [call[r] EXCEPT !.product = p])
                /\ UNCHANGED <<category, location, stocks, doubled, unlinked>>

\* What the call assigns to the product it has loaded.
Assigned(c) ==
    CASE c.op = "update_product"     -> [c.was EXCEPT !.sku = IF c.sku = None THEN @ ELSE c.sku]
      [] c.op = "activate_product"   -> [c.was EXCEPT !.active = TRUE]
      [] c.op = "deactivate_product" -> [c.was EXCEPT !.active = FALSE]

\* Slip: every column is written, changed or not.
ColumnAlways(assigned, loaded, now) == assigned

\* The UPDATE names the columns that differ from the loaded ones.
Column(assigned, loaded, now) == IF assigned = loaded THEN now ELSE assigned

SaveProduct(r) ==
    LET c == call[r]
        now == product[c.product]
        row == [sku    |-> Column(Assigned(c).sku, c.was.sku, now.sku),
                active |-> Column(Assigned(c).active, c.was.active, now.active)]
    IN
    /\ pc[r] = "write" /\ c.op \in ProductOps \ {"create_product"}
    /\ IF ~SkuIsFree(row.sku, c.product) THEN Fails(r)
       ELSE /\ product' = [product EXCEPT ![c.product] = row]
            /\ Commit(r, c)
            /\ UNCHANGED <<category, location, links, stocks, doubled, unlinked>>

\* add_product_to_category: nothing to do if the loaded products include it.  A product
\* that does not exist is appended as None, which the flush refuses.
AddToCategory(r) ==
    LET c == call[r] IN
    /\ Writes(r, "add_to_category")
    /\ IF c.product \in c.loaded THEN Goto(r, "done")
       ELSE IF \/ product[c.product] = NoProduct \/ ~MayLink(c.category)
               \/ <<c.product, c.category>> \in links THEN Fails(r)
       ELSE /\ links' = links \cup {<<c.product, c.category>>}
            /\ Commit(r, c)
            /\ UNCHANGED <<category, location, product, stocks, doubled, unlinked>>

\* A DELETE of links that are gone already: the driver may or may not count the rows.
DeleteLinks(r, ps, cs) ==
    /\ links' = links \ (ps \X {call[r].category})
    /\ category' = cs
    /\ unlinked' = unlinked \cup {p \in ps : <<p, call[r].category>> \in links}
    /\ Commit(r, call[r])
    /\ UNCHANGED <<location, product, stocks, doubled>>

IsMissing(r, ps) == \E p \in ps : <<p, call[r].category>> \notin links

\* remove_product_from_category
RemoveFromCategory(r) ==
    LET c == call[r] IN
    /\ Writes(r, "remove_from_category")
    /\ IF c.product \notin c.loaded THEN Goto(r, "done")
       ELSE \/ DeleteLinks(r, {c.product}, category)
            \/ IsMissing(r, {c.product}) /\ Fails(r)

\* delete_category: db.delete removes the links that were loaded with the category,
\* and a link added since forbids it.
DeleteCategory(r) ==
    LET c == call[r] IN
    /\ Writes(r, "delete_category")
    /\ \/ /\ ProductsOf(c.category) \subseteq c.loaded
          /\ DeleteLinks(r, c.loaded, [category EXCEPT ![c.category] = Gone])
       \/ /\ ~(ProductsOf(c.category) \subseteq c.loaded) \/ IsMissing(r, c.loaded)
          /\ Fails(r)

Step(r) ==
    \/ BeginCatalogCall(r) \/ BeginProductCall(r) \/ BeginLocationCall(r)
    \/ CheckName(r) \/ CheckSku(r) \/ Load(r) \/ CheckStock(r) \/ Refresh(r)
    \/ InsertCategory(r) \/ DeleteCategory(r) \/ AddToCategory(r) \/ RemoveFromCategory(r)
    \/ InsertLocation(r) \/ SaveLocation(r) \/ DeleteLocation(r)
    \/ InsertStock(r) \/ InsertProduct(r) \/ SaveProduct(r)

Next == \E r \in Requests : Step(r)

Spec == Init /\ [][Next]_vars

-----------------------------------------------------------------------------
(* Properties *)

\* Every variable has its type.
TypeOK ==
    /\ category \in [Categories -> CategoryNames \cup {None, Gone}]
    /\ location \in [Locations -> LocationNames \cup {None, Gone}]
    /\ product \in [Products -> ProductRows]
    /\ links \subseteq Products \X Categories
    /\ stocks \subseteq Products \X Locations
    /\ pc \in [Requests -> PCs]
    /\ call \in [Requests -> Calls]
    /\ doubled \subseteq CategoryNames \cup LocationNames
    /\ unlinked \subseteq Products
    /\ calls \in 0..MaxCalls

\* Every row has its type and nothing refers to what is gone, whichever calls race: a
\* deleted category has no products and a deleted location no stock.
NothingDangles ==
    /\ TypeOK
    /\ \A p \in Products, c \in Categories :
          <<p, c>> \in links => product[p] # NoProduct /\ Live(category[c])
    /\ \A p \in Products, l \in Locations :
          <<p, l>> \in stocks => product[p] # NoProduct /\ Live(location[l])

\* Two categories, or two locations, have one name only if the calls that gave it
\* to them overlapped: get_by_name and the insert are two statements and the name
\* is not unique in the table.
NamesakesCrossed ==
    /\ \A n \in CategoryNames \ doubled : Cardinality(CategoriesNamed(n)) <= 1
    /\ \A n \in LocationNames \ doubled : Cardinality(LocationsNamed(n)) <= 1

\* A product has a category unless somebody took it out of one: create_product never
\* leaves one without, although the category may be deleted before it is linked.
BornCategorised ==
    \A p \in Products \ unlinked :
        product[p] # NoProduct => \E c \in Categories : <<p, c>> \in links

\* add_product_to_category and initialize_stock do not check that the product exists.
NoSuchProduct(c) == c.product = Unknown /\ c.op \in {"add_to_category", "initialize_stock"}

\* An unhandled error is given only to a call that was overtaken by another on the
\* same thing, that asks for a name that two rows already have, or that names a
\* product that does not exist and is not looked for: everything else is rejected.
ErrorsExplained ==
    \A r \in Requests :
        pc[r] = "error" =>
            call[r].crossed \/ call[r].name \in doubled \/ NoSuchProduct(call[r])

InEffect(c) ==
    CASE c.op = "create_category"      -> category[c.category] = c.name
      [] c.op = "delete_category"      -> category[c.category] = Gone
      [] c.op = "add_to_category"      -> <<c.product, c.category>> \in links
      [] c.op = "remove_from_category" -> <<c.product, c.category>> \notin links
      [] c.op = "create_product"       -> /\ product[c.product].sku = c.sku
                                          /\ <<c.product, c.category>> \in links
      [] c.op = "update_product"       -> c.sku # None => product[c.product].sku = c.sku
      [] c.op = "activate_product"     -> product[c.product].active
      [] c.op = "deactivate_product"   -> ~product[c.product].active
      [] c.op = "create_location"      -> location[c.location] = c.name
      [] c.op = "update_location"      -> c.name # None => location[c.location] = c.name
      [] c.op = "delete_location"      -> location[c.location] = Gone
      [] c.op = "initialize_stock"     -> <<c.product, c.location>> \in stocks

\* A call that was answered with success is in effect until another call on the same
\* thing commits: an overlapping call about something else, or that failed, neither
\* undoes it nor keeps it from being written.
DoneIsDone ==
    \A r \in Requests :
        pc[r] = "done" => call[r].crossed \/ InEffect(call[r])
=============================================================================
