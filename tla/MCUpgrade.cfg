CONSTANTS
    Clients = {a, b}
    MaxChanges = 2
SPECIFICATION Spec
INVARIANTS TypeOK OpenIsUpgraded UpgradedIsOpen
