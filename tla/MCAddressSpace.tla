--------------------------- MODULE MCAddressSpace ---------------------------
EXTENDS AddressSpace

MCIndices == 1 .. 40
MCOptionalProps == <<"LocalTime">>
MCOneRule == {Mandatory}
MCTwoRules == {Mandatory, Placeholder}
=============================================================================
