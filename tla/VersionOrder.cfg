CONSTANT Numbers = {0, 255}
SPECIFICATION OfferSpec
INVARIANTS OrderIsSemver ReadsWhatIsWritten
