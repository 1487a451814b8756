------------------------------ MODULE MCQueryCache ------------------------------
(* Three employees of two tenants and two departments, asked about by      *)
(* recruiters, managers and an employee.                                   *)
EXTENDS QueryCache, TLC

MCEmployees == {1, 2, 3}
MCRecord ==
    (1 :> [tenant |-> "t", dept |-> "a"]) @@ (2 :> [tenant |-> "t", dept |-> "b"])
    @@ (3 :> [tenant |-> "u", dept |-> "a"])

Who(tenant, role, dept, self) ==
    [tenant |-> tenant, role |-> role, dept |-> dept, self |-> self]

MCPrincipals ==
    {Who("t", "recruiter", None, None), Who("u", "recruiter", None, None),
     Who("t", "manager", "a", None), Who("t", "manager", "b", None),
     Who("t", "employee", "a", 1)}

P == [columns |-> {}, flags |-> {}, facet |-> "", template |-> "", filters |-> {},
      ids |-> {}, scoped |-> FALSE, limit |-> 0]
Active == [field |-> "status", value |-> "true"]
Among(p, ids) == [p EXCEPT !.ids = ids, !.scoped = TRUE]
Count(p) == [p EXCEPT !.flags = {"count_only"}]
Filtered(p, f) == [p EXCEPT !.filters = {f}]

Constrained(p) == [mode |-> "constrained", params |-> p]
One(p) == [nodes |-> "c1" :> Constrained(p), twins |-> FALSE]
Two(p) == [nodes |-> "c1" :> Constrained([p EXCEPT !.columns = {"id"}])
                     @@ "c2" :> Constrained(Count(p)),
           twins |-> TRUE]
Free == [nodes |-> "c1" :> [mode |-> "nl2sql", params |-> P], twins |-> FALSE]

MCStarts == {<<TRUE, FALSE, TRUE>>}

MCTurns ==
    {One(P), One([P EXCEPT !.flags = {"distinct"}, !.columns = {"department"}]),
     One([P EXCEPT !.flags = {"count_distinct"}, !.facet = "city"]),
     One([P EXCEPT !.template = "longest_tenured", !.limit = 1]),
     One([P EXCEPT !.template = "agg_tenure"]),
     Two(Filtered(P, Active)), Two(Among(P, {1})), Two(Among(P, {})), Free}

S(verb, columns, limit) ==
    [verb |-> verb, tables |-> {"employees"}, columns |-> columns, star |-> FALSE,
     functions |-> FALSE, limit |-> limit, comment |-> FALSE]
MCDrafts ==
    {S("select", {"id", "salary"}, "none"), S("select", {"id"}, "expression"),
     S("write", {"status"}, "one"),
     [S("select", {"department"}, "one") EXCEPT !.tables = {"employees", "resumes"}],
     [S("select", {"id"}, "none") EXCEPT !.comment = TRUE],
     [S("select", {"id"}, "one") EXCEPT !.functions = TRUE]}
=============================================================================
