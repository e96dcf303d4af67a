----------------------------- MODULE HttpRequests -----------------------------
(***************************************************************************)
(* The HTTP endpoints of the modules and the permissions they ask for      *)
(* (the handlers at the end of every file of crates/nebula-apps/src, and   *)
(* crates/nebula/src/administration), with the permission trees the        *)
(* modules define; and a request on its way to its service                 *)
(* (crates/nebula/src/auth/authz.rs, crates/nebula-apps/src/scm/pos).      *)
(* An endpoint is                                                          *)
(*   on, do   the documents it is about and what it does,                  *)
(*   need     the permission it requires, << >> when it asks for none,     *)
(*   effect   "read", "draft" (drafts and master data), "step" (moves a    *)
(*            document along), "post" (moves stock, money or the ledger)   *)
(*            or "own" (only the caller's own settings).                   *)
(* What the call does to its documents is modelled by the other modules.   *)
(*                                                                         *)
(* A request is authenticated, its permission is asked for, a supervisor   *)
(* may approve it by PIN, and the service commits or refuses.  Meanwhile   *)
(* an administrator takes permissions and PINs back.                       *)
(***************************************************************************)
EXTENDS Sequences, Functions

CONSTANT None

At(on, do, need, effect) == [on |-> on, do |-> do, need |-> need, effect |-> effect]

Reads(on, calls, need) == { At(on, do, need, "read") : do \in calls }

\* What the users of branch b may do with its master data.
Masters(on, root, b) ==
    Reads(on, {"list", "get"}, << root, b, "View" >>) \cup
    { At(on, "create", << root, b, "Create" >>, "draft"),
      At(on, "update", << root, b, "Edit" >>, "draft"),
      At(on, "delete", << root, b, "Delete" >>, "draft") }

Managed(on, root, b) ==
    Reads(on, {"list", "get"}, << root, b, "View" >>) \cup
    { At(on, "create", << root, b, "Manage" >>, "draft"),
      At(on, "update", << root, b, "Manage" >>, "draft") }

Drafts(on, root, b) ==
    Reads(on, {"list", "get"}, << root, b, "View" >>) \cup
    { At(on, "create", << root, b, "Create" >>, "draft"),
      At(on, "update", << root, b, "Create" >>, "draft"),
      At(on, "delete", << root, b, "Create" >>, "draft") }

\* verbs[do]: the permission of the branch that a call asks for.
Calls(on, root, b, effect, verbs) ==
    { At(on, do, << root, b, verbs[do] >>, effect) : do \in DOMAIN verbs }

\* A tree of permissions: branches[b] are the leaves of branch b.
Tree(root, branches) ==
    { << root >> } \cup { << root, b >> : b \in DOMAIN branches }
        \cup UNION { { << root, b, v >> : v \in branches[b] } : b \in DOMAIN branches }

Masterly == {"View", "Create", "Edit", "Delete"}

----------------------------------------------------------------------------
(* Accounting.                                                             *)

accounting_tree ==
    Tree("Accounting",
         [Accounts |-> Masterly, FiscalYears |-> {"View", "Manage"}, Journal |-> {"View", "Create", "Post", "Reverse"},
          Expenses |-> {"View", "Record"}, Tax |-> Masterly, Reports |-> {"View"}])

accounts == Masters("account", "Accounting", "Accounts")
tax_codes == Masters("tax code", "Accounting", "Tax")
expenses ==
    Reads("expense", {"list"}, << "Accounting", "Expenses", "View" >>)
        \cup { At("expense", "record", << "Accounting", "Expenses", "Record" >>, "post") }
fiscal_years ==
    Reads("fiscal year", {"list"}, << "Accounting", "FiscalYears", "View" >>)
        \cup { At("fiscal year", "create", << "Accounting", "FiscalYears", "Manage" >>, "step") }
        \cup Calls("fiscal year", "Accounting", "FiscalYears", "step",
                   [close |-> "Manage", reopen |-> "Manage", lock |-> "Manage"])
journal ==
    Drafts("journal entry", "Accounting", "Journal")
        \cup Calls("journal entry", "Accounting", "Journal", "post", [post |-> "Post", reverse |-> "Reverse"])
statements ==
    Reads("ledger", {"trial_balance", "balance_sheet", "income_statement", "account_ledger"},
          << "Accounting", "Reports", "View" >>)

----------------------------------------------------------------------------
(* Inventory.                                                              *)

inventory_tree ==
    Tree("Inventory",
         [Items |-> Masterly, Warehouses |-> {"View", "Manage"}, Movements |-> {"View", "Create", "Post", "Reverse"},
          Adjustments |-> {"View", "Create", "Post"}, Reports |-> {"View"}])

items == Masters("item", "Inventory", "Items")
categories == Masters("category", "Inventory", "Items") \ Reads("category", {"get"}, << "Inventory", "Items", "View" >>)
uoms ==
    Reads("uom", {"list"}, << "Inventory", "Items", "View" >>)
        \cup { At("uom", "create", << "Inventory", "Items", "Create" >>, "draft") }
lots == Reads("lot", {"batches", "serials"}, << "Inventory", "Items", "View" >>)
warehouses == Managed("warehouse", "Inventory", "Warehouses")
levels ==
    Reads("level", {"list", "ledger"}, << "Inventory", "Movements", "View" >>)
        \cup Reads("level", {"valuation"}, << "Inventory", "Reports", "View" >>)

\* Stock counts have permissions of their own, except to be listed and to be
\* reversed.
branch(type) == IF type = "adjustment" THEN "Adjustments" ELSE "Movements"
moves ==
    Reads("move", {"list"}, << "Inventory", "Movements", "View" >>)
        \cup UNION { Drafts(t, "Inventory", branch(t)) \ Reads(t, {"list"}, << "Inventory", branch(t), "View" >>)
                        : t \in {"receipt", "issue", "transfer", "adjustment"} }
posted_moves ==
    UNION { Calls(t, "Inventory", branch(t), "post", [post |-> "Post"])
                : t \in {"receipt", "issue", "transfer", "adjustment"} }
        \cup Calls("move", "Inventory", "Movements", "post", [reverse |-> "Reverse"])
reconciliation == Reads("ledger", {"reconciliation"}, << "Inventory", "Reports", "View" >>)

----------------------------------------------------------------------------
(* Procurement.                                                            *)

procurement_tree ==
    Tree("Procurement",
         [Suppliers |-> Masterly, Requisitions |-> {"View", "Create", "Submit", "Approve", "Convert"},
          Rfqs |-> {"View", "Create", "Send", "RecordQuotes", "Award"},
          Orders |-> {"View", "Create", "Submit", "Approve", "Cancel"},
          Receipts |-> {"View", "Create", "Post", "Reverse"}, Returns |-> {"View", "Create", "Post", "Reverse"},
          Invoices |-> {"View", "Create", "Post", "Cancel"}, Payments |-> {"View", "Create", "Post", "Reverse"},
          Reports |-> {"View"}])

suppliers == Masters("supplier", "Procurement", "Suppliers")
catalog ==
    Reads("catalog", {"list"}, << "Procurement", "Suppliers", "View" >>) \cup
    { At("catalog", "upsert", << "Procurement", "Suppliers", "Edit" >>, "draft"),
      At("catalog", "remove", << "Procurement", "Suppliers", "Edit" >>, "draft") }
requisitions == Drafts("requisition", "Procurement", "Requisitions")
requisition_steps ==
    Calls("requisition", "Procurement", "Requisitions", "step",
          [submit |-> "Submit", approve |-> "Approve", reject |-> "Approve", cancel |-> "Create", convert |-> "Convert"])
rfqs == Drafts("rfq", "Procurement", "Rfqs")
rfq_steps ==
    Calls("rfq", "Procurement", "Rfqs", "step",
          [send |-> "Send", record_quotes |-> "RecordQuotes", close |-> "Send", cancel |-> "Create", award |-> "Award"])
purchase_orders == Drafts("purchase order", "Procurement", "Orders")

\* MUTANT of purchase_order_steps: whoever drafts an order approves it.
purchase_order_steps_Drafter ==
    Calls("purchase order", "Procurement", "Orders", "step", [submit |-> "Submit"])
        \cup Calls("purchase order", "Procurement", "Orders", "post",
                   [approve |-> "Create", cancel |-> "Cancel", close |-> "Cancel"])

\* Approval puts the order on order at its warehouses.
purchase_order_steps ==
    Calls("purchase order", "Procurement", "Orders", "step", [submit |-> "Submit"])
        \cup Calls("purchase order", "Procurement", "Orders", "post",
                   [approve |-> "Approve", cancel |-> "Cancel", close |-> "Cancel"])

\* A run of the reorder worker only drafts orders.
reorder == Calls("reorder", "Procurement", "Orders", "draft", [run |-> "Create"])
receipts == Drafts("goods receipt", "Procurement", "Receipts")
                \cup Reads("goods receipt", {"of order"}, << "Procurement", "Receipts", "View" >>)
receipt_posts == Calls("goods receipt", "Procurement", "Receipts", "post", [post |-> "Post", reverse |-> "Reverse"])
returns == Drafts("purchase return", "Procurement", "Returns")
                \cup Reads("purchase return", {"of order"}, << "Procurement", "Returns", "View" >>)
return_posts == Calls("purchase return", "Procurement", "Returns", "post", [post |-> "Post", reverse |-> "Reverse"])
supplier_invoices == Drafts("supplier invoice", "Procurement", "Invoices")
supplier_invoice_posts == Calls("supplier invoice", "Procurement", "Invoices", "post", [post |-> "Post", cancel |-> "Cancel"])
supplier_payments == Drafts("supplier payment", "Procurement", "Payments")
supplier_payment_posts == Calls("supplier payment", "Procurement", "Payments", "post", [post |-> "Post", reverse |-> "Reverse"])
procurement_reports ==
    Reads("procurement report", {"grni", "balances", "scorecards"}, << "Procurement", "Reports", "View" >>)

----------------------------------------------------------------------------
(* Sales.                                                                  *)

sales_tree ==
    Tree("Sales",
         [Customers |-> Masterly, Pricing |-> {"View", "Manage", "Override"},
          Quotations |-> {"View", "Create", "Send", "Convert"}, Orders |-> {"View", "Create", "Confirm", "Cancel", "Close"},
          Deliveries |-> {"View", "Create", "Post", "Reverse"}, Invoices |-> {"View", "Create", "Post", "Cancel"},
          CreditNotes |-> {"View", "Create", "Post", "Cancel"}, Payments |-> {"View", "Create", "Post", "Reverse"},
          Reports |-> {"View"}])
    \cup { << "Sales", "Credit", "Override" >> }

customers == Masters("customer", "Sales", "Customers")
groups == Masters("group", "Sales", "Customers") \ Reads("group", {"get"}, << "Sales", "Customers", "View" >>)
price_lists ==
    Managed("price list", "Sales", "Pricing")
        \cup Reads("price list", {"lines", "resolve"}, << "Sales", "Pricing", "View" >>)
        \cup { At("price list", "delete", << "Sales", "Pricing", "Manage" >>, "draft") }
price_list_steps ==
    Calls("price list", "Sales", "Pricing", "step",
          [put_lines |-> "Manage", activate |-> "Manage", archive |-> "Manage"])
quotations == Drafts("quotation", "Sales", "Quotations")
quotation_steps ==
    Calls("quotation", "Sales", "Quotations", "step",
          [send |-> "Send", accept |-> "Send", decline |-> "Send", convert |-> "Convert"])
sales_orders == Drafts("sales order", "Sales", "Orders")

\* Confirming and reserving take stock for the order.
sales_order_steps ==
    Calls("sales order", "Sales", "Orders", "post",
          [confirm |-> "Confirm", cancel |-> "Cancel", close |-> "Close", reserve |-> "Confirm"])

\* A manual price and a customer over the credit limit ask for more.
Overrides ==
    { << do, on, << "Sales", "Pricing", "Override" >> >> : do \in {"create", "update"}, on \in {"quotation", "sales order"} }
        \cup { << "confirm", "sales order", << "Sales", "Credit", "Override" >> >> }
deliveries == Drafts("delivery", "Sales", "Deliveries")
                \cup Reads("delivery", {"of order"}, << "Sales", "Deliveries", "View" >>)
delivery_posts == Calls("delivery", "Sales", "Deliveries", "post", [post |-> "Post", reverse |-> "Reverse"])
sales_invoices == Drafts("sales invoice", "Sales", "Invoices")
                \cup Reads("sales invoice", {"of order"}, << "Sales", "Invoices", "View" >>)
sales_invoice_posts == Calls("sales invoice", "Sales", "Invoices", "post", [post |-> "Post", cancel |-> "Cancel"])
credit_notes == Drafts("credit note", "Sales", "CreditNotes")
credit_note_posts == Calls("credit note", "Sales", "CreditNotes", "post", [post |-> "Post", cancel |-> "Cancel"])
customer_payments == Drafts("customer payment", "Sales", "Payments")
customer_payment_posts == Calls("customer payment", "Sales", "Payments", "post", [post |-> "Post", reverse |-> "Reverse"])
sales_reports ==
    Reads("sales report", {"aging", "unbilled", "register", "margins", "reconciliation", "statement"},
          << "Sales", "Reports", "View" >>)

----------------------------------------------------------------------------
(* The till.  Void and refund, and what a sale overrides, ask in addition  *)
(* for the override permission or for the PIN of somebody who has it.      *)

pos_tree ==
    Tree("Pos", [Registers |-> {"View", "Manage"}, Sessions |-> {"Open", "Close", "PaidInOut"}, Reports |-> {"View"}])
        \cup { << "Pos", "Sell" >>, << "Pos", "Refund" >>, << "Pos", "Override" >> }

registers ==
    Managed("register", "Pos", "Registers")
        \cup { At("register", "deactivate", << "Pos", "Registers", "Manage" >>, "draft"),
               At("register", "set_grid", << "Pos", "Sell" >>, "own") }
sales ==
    Reads("sale", {"list", "get", "catalog"}, << "Pos", "Sell" >>)
        \cup { At("sale", "capture", << "Pos", "Sell" >>, "post"),
               At("sale", "sync", << "Pos", "Sell" >>, "post") }
sale_reversals ==
    { At("sale", "void", << "Pos", "Sell" >>, "post"),
      At("sale", "refund", << "Pos", "Refund" >>, "post") }
sessions ==
    Reads("session", {"list", "z_report"}, << "Pos", "Reports", "View" >>)
        \cup Reads("session", {"current", "get", "x_report"}, << "Pos", "Sell" >>)
        \cup Calls("session", "Pos", "Sessions", "post",
                   [open |-> "Open", add_cash_movement |-> "PaidInOut", close |-> "Close"])
settings ==
    Reads("settings", {"get"}, << "Pos", "Sell" >>)
        \cup { At("settings", "put", << "Pos", "Registers", "Manage" >>, "draft") }
pos_reports == Reads("pos report", {"sessions", "tenders", "items", "hourly"}, << "Pos", "Reports", "View" >>)

----------------------------------------------------------------------------
(* Administration.                                                         *)

administration_tree ==
    Tree("Administration",
         [Users |-> Masterly \cup {"Permissions"}, Roles |-> Masterly, Tenant |-> {"Settings"}, AuditLogs |-> {"View"}])

Settings == << "Administration", "Tenant", "Settings" >>

users ==
    Reads("user", {"list"}, << "Administration", "Users", "View" >>)
        \cup { At("user", "create", << "Administration", "Users", "Create" >>, "draft") }
user_permissions ==
    Reads("user", {"permissions"}, << "Administration", "Users", "Permissions" >>)
        \cup { At("user", do, << "Administration", "Users", "Permissions" >>, "draft")
                    : do \in {"set_admin", "set_roles", "set_permissions"} }
override_pins == { At("user", "set_override_pin", << "Administration", "Users", "Edit" >>, "draft") }
role_endpoints ==
    Reads("role", {"list", "tree"}, << "Administration", "Roles", "View" >>) \cup
    { At("role", "create", << "Administration", "Roles", "Create" >>, "draft"),
      At("role", "update", << "Administration", "Roles", "Edit" >>, "draft"),
      At("role", "delete", << "Administration", "Roles", "Delete" >>, "draft") }
audit_logs ==
    Reads("audit log", {"list", "get", "diff"}, << "Administration", "AuditLogs", "View" >>)
        \cup Reads("retention", {"get"}, Settings)
        \cup { At("retention", "set", Settings, "draft") }
currencies ==
    Reads("currency", {"list"}, << >>) \cup
    { At("currency", "create", Settings, "draft"), At("currency", "delete", Settings, "draft") }
mail_settings ==
    Reads("mail", {"get"}, Settings)
        \cup { At("mail", "update", Settings, "draft"), At("mail", "test", Settings, "read") }
password_policy ==
    Reads("password policy", {"get"}, << >>) \cup { At("password policy", "update", Settings, "draft") }
company ==
    Reads("company", {"two_factor_get", "profile_get"}, << >>)
        \cup { At("company", do, Settings, "draft") : do \in {"two_factor", "profile_update"} }
company_files ==
    { At("company", "logo_upload", Settings, "draft"), At("company", "migrate", Settings, "step") }

----------------------------------------------------------------------------

Registry == accounting_tree \cup inventory_tree \cup procurement_tree \cup sales_tree \cup pos_tree \cup administration_tree

All ==
    accounts \cup tax_codes \cup expenses \cup fiscal_years \cup journal \cup statements
        \cup items \cup categories \cup uoms \cup lots \cup warehouses \cup levels \cup moves \cup posted_moves \cup reconciliation
        \cup suppliers \cup catalog \cup requisitions \cup requisition_steps \cup rfqs \cup rfq_steps
        \cup purchase_orders \cup purchase_order_steps \cup reorder \cup receipts \cup receipt_posts \cup returns \cup return_posts
        \cup supplier_invoices \cup supplier_invoice_posts \cup supplier_payments \cup supplier_payment_posts \cup procurement_reports
        \cup customers \cup groups \cup price_lists \cup price_list_steps \cup quotations \cup quotation_steps \cup sales_orders \cup sales_order_steps
        \cup deliveries \cup delivery_posts \cup sales_invoices \cup sales_invoice_posts \cup credit_notes \cup credit_note_posts
        \cup customer_payments \cup customer_payment_posts \cup sales_reports
        \cup registers \cup sales \cup sale_reversals \cup sessions \cup settings \cup pos_reports
        \cup users \cup user_permissions \cup override_pins \cup role_endpoints \cup audit_logs \cup currencies \cup mail_settings \cup password_policy
        \cup company \cup company_files

----------------------------------------------------------------------------
(* The people who make requests.                                           *)

Verb(p) == p[Len(p)]

\* What each was given: everything, what is only looked at, what drafts, the
\* till, nothing but overrides.
Given ==
    [owner |-> Registry,
     viewer |-> { p \in Registry : Verb(p) = "View" },
     clerk |-> { p \in Registry : Verb(p) \in {"View", "Create", "Edit", "Delete"} },
     cashier |-> { << "Pos", "Sell" >>, << "Pos", "Refund" >>, << "Sales", "Orders", "Confirm" >> },
     supervisor |-> { << "Pos", "Override" >> }]

VARIABLES
    request,    \* the request under way
    revoked,    \* the users whose permissions were taken back
    live,       \* the users who are active
    pins        \* the users with an override PIN

vars == << request, revoked, live, pins >>

People == DOMAIN Given

Idle == [stage |-> "idle", user |-> None, at |-> None, overriding |-> FALSE, approval |-> None,
         backed |-> {}, ok |-> FALSE, answer |-> None]

Init ==
    /\ request = Idle
    /\ revoked = {} /\ live = People /\ pins = {"supervisor"}

----------------------------------------------------------------------------
(* What is asked for.                                                      *)

\* Drafting a sales document with a manual price, confirming over the credit
\* limit, and discounting or pricing by hand at the till.
needs_override(q) == q.overriding

Gated(e) == e.on = "sale" /\ e.do \in {"void", "refund"}
AtTheTill(e) == e.on = "sale" /\ e.do \in {"capture", "sync", "void", "refund"}
MayOverride(e) == (\E o \in Overrides : o[1] = e.do /\ o[2] = e.on) \/ (AtTheTill(e) /\ ~Gated(e))

\* The permission the override asks for.
Override(e) == IF AtTheTill(e) THEN << "Pos", "Override" >>
               ELSE (CHOOSE o \in Overrides : o[1] = e.do /\ o[2] = e.on)[3]

arrive(u, e, over, a) ==
    /\ over => MayOverride(e)
    /\ a # None => AtTheTill(e) /\ e.do # "sync" /\ (over \/ Gated(e))
    /\ request' = [Idle EXCEPT !.stage = "arrived", !.user = u, !.at = e, !.overriding = over, !.approval = a]
    /\ UNCHANGED << revoked, live, pins >>

----------------------------------------------------------------------------
(* Authorization.                                                          *)

Answers(code) == request' = [request EXCEPT !.stage = "answered", !.answer = code]

\* The bearer token is that of an active user.
current_user == request.user \in live

granted_permissions(u) == IF u \in revoked THEN {} ELSE Given[u]
is_granted(p) == p \in granted_permissions(request.user)

require ==
    /\ request.stage = "arrived"
    /\ LET need == request.at.need IN
       IF ~current_user THEN Answers("unauthorized")
       ELSE IF need # << >> /\ need \notin Registry THEN Answers("internal error")
       ELSE IF need # << >> /\ ~is_granted(need) THEN Answers("forbidden")
       ELSE request' = [request EXCEPT !.stage = "allowed"]
    /\ UNCHANGED << revoked, live, pins >>

verify_override_pin(a) == a \in live /\ a \in pins /\ << "Pos", "Override" >> \in granted_permissions(a)

\* A manual price and the credit limit ask the caller's own permission; the
\* till takes a PIN in its place, but not for what was sold offline.
resolve_override ==
    /\ request.stage = "allowed"
    /\ LET q == request
           Backed(who) == request' = [q EXCEPT !.stage = "backed", !.backed = who]
       IN
       IF ~(Gated(q.at) \/ needs_override(q)) THEN Backed({})
       ELSE IF is_granted(Override(q.at)) THEN Backed({q.user})
       ELSE IF q.approval # None
            THEN IF verify_override_pin(q.approval) THEN Backed({q.approval}) ELSE Answers("forbidden")
       ELSE IF Gated(q.at) THEN Answers("invalid") ELSE Backed({})
    /\ UNCHANGED << revoked, live, pins >>

----------------------------------------------------------------------------
(* The service.                                                            *)

\* The service refuses what is overridden without leave, and whatever its
\* own rules refuse.
serve ==
    /\ request.stage = "backed"
    /\ \/ (needs_override(request) => request.backed # {})
          /\ request' = [request EXCEPT !.stage = "answered", !.ok = TRUE]
       \/ Answers("invalid")
    /\ UNCHANGED << revoked, live, pins >>

----------------------------------------------------------------------------
(* An administrator, meanwhile.                                            *)

revoke(u) ==
    /\ request.stage \in {"arrived", "allowed"}
    /\ u \notin revoked /\ revoked' = revoked \cup {u}
    /\ UNCHANGED << request, live, pins >>

deactivate(u) ==
    /\ request.stage \in {"arrived", "allowed"}
    /\ live' = live \ {u} /\ live' # live
    /\ UNCHANGED << request, revoked, pins >>

set_override_pin(u) ==
    /\ request.stage \in {"arrived", "allowed"}
    /\ pins' = IF u \in pins THEN pins \ {u} ELSE pins \cup {u}
    /\ UNCHANGED << request, revoked, live >>

Concerned == {request.user, request.approval} \cap People

Next ==
    \/ request.stage = "idle"
          /\ \E u \in People, e \in All, over \in BOOLEAN, a \in {None, "cashier", "supervisor"} : arrive(u, e, over, a)
    \/ require \/ resolve_override \/ serve
    \/ \E u \in Concerned : revoke(u) \/ deactivate(u) \/ set_override_pin(u)

Spec == Init /\ [][Next]_vars

----------------------------------------------------------------------------
(* Properties.                                                             *)

\* The endpoints and the permission trees agree with the roles a company
\* builds from them: who has every permission is never turned away, who may
\* only view changes nothing, who may draft moves neither stock nor money,
\* and nothing is voided, refunded, discounted or priced by hand unless the
\* caller or whoever gave a PIN has the permission to override (the
\* permission of each handler, Authz::require, resolve_override).
RolesHold ==
    /\ request.user = "owner" /\ "owner" \notin revoked => request.answer # "forbidden"
    /\ request.answer # "internal error"
    /\ request.ok =>
        /\ request.user = "viewer" => request.at.effect = "read"
        /\ request.user = "clerk" => request.at.effect # "post"
        /\ request.user = "supervisor" => request.at.need = << >>
        /\ Gated(request.at) \/ request.overriding
              => \E u \in request.backed : Override(request.at) \in Given[u]
=============================================================================
