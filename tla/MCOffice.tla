------------------------------ MODULE MCOffice ------------------------------
(* The components around the ledgers share no state: desk, chosen once, says *)
(* which one of them a behaviour is about, and the others stay as they were. *)
EXTENDS Banking, Delivery, Projections, LowStockAlerts, Tasks, Reports, Contacts, Warehouses, Directory, BlackBook,
  PlatformStaff, Onboarding, ServerProcess, TLC

CONSTANTS Desks

VARIABLES desk

TwoCurrencies == [a \in BankAccounts |-> IF a = "zwg" THEN 2 ELSE 1]
CentsInOut == {-1, 1}
StatementEnds == {0, 1}
FoldedOrder == <<4, 1, 3, 2>>
LostHalfMinutes == {-1, 2, 3}

\* Bounds on what meets what: one statement or worksheet at a time, of the base currency's
\* account; and the lines, between which nothing else tells, come in in order.
OneStatement ==
  /\ "line2" \in Imported => "line1" \in Imported
  /\ \A d \in Days : statement["zwg", d] = Nil
  /\ \A c \in Cashiers : cashier[c] # Nil /\ cashier[c].task = "WORKSHEET" =>
       /\ cashier[c].of = "usd"
       /\ \A e \in Cashiers \ {c} : cashier[e] = Nil \/ cashier[e].task # "WORKSHEET"
       /\ \A d \in Days \ {cashier[c].day} : statement["usd", d] = Nil

\* Snapshots over a journal of one kind of posting.
PlainSnapshots ==
  (\E k \in SnapshotKeys : snapshot[k] # Absent) \/ (\E c \in Accountants : accountant[c] # Absent)
    => \A i \in DOMAIN journal : journal[i].kind = "expense" /\ journal[i].at = 0

\* A transaction on contacts begins once all of them are there, and two at once are not about suppliers.
PlainContacts ==
  LET busy == {k \in Clerks : clerk[k] # Unset}
  IN /\ busy # {} => \A c \in Contacts : contact[c].status # "NONE"
     /\ busy = {} \/ (\A r \in Removals : removal[r].status = "NONE") \/ \A c \in Contacts : contact[c].code = Unset
     /\ Cardinality(busy) > 1 => \A c \in Contacts : ~contact[c].vendor

\* One of the two entries is written once.
PlainImports == entry["key2"].version < 2

\* Nobody new and no managers once there is evidence of a backup.
PlainDrills ==
  (\E m \in Manifests : manifest[m] # Vacant) =>
    \A p \in Members : member[p].manager = Vacant /\ ~member[p].temporary

\* Users and reviews come once no signup is in progress, and not both.
PlainOnboarding ==
  LET reviews == Len(events) > 1 \/ \E r \in Reviewers : reviewing[r] # Unknown
      others == \E s \in Subdomains : tenant[s] # Unknown /\ tenant[s].users # {}
  IN /\ reviews \/ others => \A v \in Signups : signup[v] = Unknown
     /\ ~(reviews /\ others)

\* Requests are counted while no probe is under way, of one client more than once, and of
\* one alone while the process goes down.
PlainServer ==
  /\ (\E c \in Clients : windows[c] # Silent) => probe = Silent /\ database = "ANSWERS"
  /\ probe # Silent => process = Started
  /\ process # Started => \E c \in Clients : windows[c] = Silent
  /\ \E c \in Clients : \A d \in Clients \ {c} : Len(admitted[d]) <= 1

paperVars == <<bankVars, deliveryVars, reportVars>>
followUpVars == <<projectionVars, pagingVars, alertVars, taskVars>>
registerVars == <<contactVars, warehouseVars, directoryVars, blackBookVars>>
platformVars == <<staffVars, drillVars, onboardingVars, serverVars>>
officeVars == <<desk, paperVars, followUpVars, registerVars, platformVars>>

OfficeInit ==
  /\ desk \in Desks
  /\ BankInit /\ DeliveryInit /\ ReportInit
  /\ ProjectionInit /\ PagingInit /\ AlertInit /\ TaskInit
  /\ ContactInit /\ WarehouseInit /\ DirectoryInit /\ BlackBookInit
  /\ StaffInit /\ DrillInit /\ OnboardingInit /\ ServerInit
  /\ desk # "projections" => kind = "customer"
  /\ desk # "search" => listed = {} /\ collation = "C"
  /\ desk # "alerts" => staff = {} /\ stock.quantity = 0
  /\ desk # "server" => database = "ANSWERS"
  /\ desk # "warehouses" => limit = Contracted /\ warehouse["w1"].name = "n1"

OfficeNext ==
  /\ desk' = desk
  /\ \/ /\ UNCHANGED <<followUpVars, registerVars, platformVars>>
        /\ \/ desk = "banking" /\ BankNext /\ OneStatement' /\ UNCHANGED <<deliveryVars, reportVars>>
           \/ desk = "delivery" /\ DeliveryNext /\ UNCHANGED <<bankVars, reportVars>>
           \/ desk = "reports" /\ ReportNext /\ PlainSnapshots' /\ UNCHANGED <<bankVars, deliveryVars>>
     \/ /\ UNCHANGED <<paperVars, registerVars, platformVars>>
        /\ \/ desk = "projections" /\ ProjectionNext /\ UNCHANGED <<pagingVars, alertVars, taskVars>>
           \/ desk = "timeline" /\ TimelineNext /\ UNCHANGED <<projectionVars, searchVars, alertVars, taskVars>>
           \/ desk = "search" /\ SearchNext /\ UNCHANGED <<projectionVars, timelineVars, alertVars, taskVars>>
           \/ desk = "alerts" /\ AlertNext /\ UNCHANGED <<projectionVars, pagingVars, taskVars>>
           \/ desk = "tasks" /\ TaskNext /\ UNCHANGED <<projectionVars, pagingVars, alertVars>>
     \/ /\ UNCHANGED <<paperVars, followUpVars, platformVars>>
        /\ \/ desk = "contacts" /\ ContactNext /\ PlainContacts' /\ UNCHANGED <<warehouseVars, directoryVars, blackBookVars>>
           \/ desk = "warehouses" /\ WarehouseNext /\ UNCHANGED <<contactVars, directoryVars, blackBookVars>>
           \/ desk = "directory" /\ DirectoryNext /\ UNCHANGED <<contactVars, warehouseVars, blackBookVars>>
           \/ desk = "blackbook" /\ BlackBookNext /\ PlainImports' /\ UNCHANGED <<contactVars, warehouseVars, directoryVars>>
     \/ /\ UNCHANGED <<paperVars, followUpVars, registerVars>>
        /\ \/ desk = "staff" /\ StaffNext /\ UNCHANGED <<drillVars, onboardingVars, serverVars>>
           \/ desk = "drills" /\ DrillNext /\ PlainDrills' /\ UNCHANGED <<onboardingVars, serverVars>>
           \/ desk = "onboarding" /\ OnboardingNext /\ PlainOnboarding' /\ UNCHANGED <<staffVars, drillVars, serverVars>>
           \/ desk = "server" /\ ServerNext /\ PlainServer' /\ UNCHANGED <<staffVars, drillVars, onboardingVars>>

OfficeSpec == OfficeInit /\ [][OfficeNext]_officeVars /\ DeliveryFairness /\ ContactFairness

----------------------------------------------------------------------------
(* Properties: a desk's, while the behaviour is about it.                  *)

\* Whoever reads what is due, or writes it down: reports tell what was posted; contacts,
\* locations, the public profile and the registry hold together, and so do the platform's
\* staff, its restore evidence, how companies join it, and what one process of the server
\* promises its clients and its probes.
RegistersSound ==
  /\ desk = "reports" => ReportsSound
  /\ desk = "contacts" => ContactsSound
  /\ desk = "warehouses" => WarehousesSound
  /\ desk = "directory" => DirectorySound
  /\ desk = "blackbook" => BlackBookSound
  /\ desk \in {"staff", "drills"} => StaffSound
  /\ desk = "drills" => DrillsSound
  /\ desk = "onboarding" => OnboardingSound
  /\ desk = "server" => ServerSound

\* What follows a committed change - search and timeline, alerts, tasks - is in step with it,
\* and whoever turns the pages of a search or a timeline misses nothing and sees nothing twice.
FollowUpsSound ==
  /\ desk = "projections" => IndexFollowsRow
  /\ desk = "timeline" => TimelineWhole
  /\ desk = "search" => SearchWhole
  /\ desk = "alerts" => AlertsSound
  /\ desk = "tasks" => TasksSound

\* What a server began comes to an end: a message that was claimed, a transaction that waits.
OfficeSettles == DeliverySettles /\ TransactionsEnd
=============================================================================
