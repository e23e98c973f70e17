CONSTANTS
    Requests = {r1, r2, r3}
    Departments = {d1, d2}
    Employees = {e1}
    Names = {n1, n2}
    Texts = {t1}
    First = d1
    Starter = e1
    FirstName = n1
    None = None
SPECIFICATION Spec
SYMMETRY Symmetry
INVARIANTS
    TypeOK
    DepartmentConsistent
    NamesUnique
    TextIsOfDepartment
PROPERTY StrandedByReturnOrRace
\* Every request is handled once: a run ends when all have been answered.
CHECK_DEADLOCK FALSE
