CONSTANTS
 Builder = {b1, b2, b3}
 ArgumentValue <- AnyArguments
 Junk <- JunkArgument
 MaxArguments = 2
 MaxReports = 2
 CallSites <- AnyCallSites
 Forms <- AnyForms
SPECIFICATION Spec
INVARIANTS TypeOK InFlight CountsOK FormattedOK
PROPERTY ImplementsLog
